---- MODULE Spec2Model ----
(***************************************************************************)
(* GPSTrackDisplay: the window's re-render pipeline (ui/base_window.py,    *)
(* apps/map_app.py, apps/curve_app.py), the kinematic derivations of       *)
(* models/track.py, the decoders of parsers/ and the batch ingestion of    *)
(* main.py and viewer/interactive_viewer.py.                               *)
(*                                                                         *)
(* Python dicts are functions with string domains; {} is the function with *)
(* the empty domain and d1.update(d2) is d2 @@ d1.                         *)
(***************************************************************************)
EXTENDS Integers, Sequences, FiniteSets, TLC

VARIABLES
    window,             \* which BaseWindow subclass runs: "map" or "curve"
    tracks,             \* len(self.tracks)
    current_view_file,  \* self.current_view_file
    view_state,         \* self.view_state
    show_legend,        \* self.show_legend
    show_zoom_controls, \* MapWindow.show_zoom_controls
    stack,              \* the handlers on the call stack, innermost last
    render,             \* what regenerate_view did, if the last step ran it
    points,             \* Track.points
    original,           \* the points the track held before any derivation
    op,                 \* the derivation under test and its window width
    passes,             \* how many times the derivation has been applied
    source,             \* the content of the file a decoder is reading
    cursor,             \* the number of lines IGCParser.parse has consumed
    flight_date,        \* flight_date of IGCParser.parse
    origin,             \* for each point of the track, the line it came from
    phase,              \* how far the call under way has come
    total,              \* what get_total_distance returned last
    file_paths,         \* the files selected for a batch
    loaded,             \* tracks / new_tracks of the batch loop
    printed,            \* what the batch loop has printed, per file
    decoded,            \* the calls of the batch loop to a decoder's parse
    viewer_tracks,      \* InteractiveMapViewer.tracks
    kwargs,             \* the options a renderer's create_view is called with
    artifact,           \* what the file at a renderer's output path holds
    returned            \* what the call of create_view came to

winVars == <<window, tracks, current_view_file, view_state, show_legend,
             show_zoom_controls, stack, render>>
trackVars == <<points, original, op, passes>>
derivVars == <<original, op, passes>>
parseVars == <<source, cursor, flight_date, origin>>
batchVars == <<file_paths, loaded, printed, decoded, viewer_tracks>>
curveVars == <<kwargs, artifact, returned>>
decodeVars == <<source, cursor, flight_date, origin, phase, total, file_paths,
                loaded, printed, decoded, viewer_tracks, kwargs, artifact,
                returned>>
vars == <<window, tracks, current_view_file, view_state, show_legend,
          show_zoom_controls, stack, render, points, original, op, passes,
          source, cursor, flight_date, origin, phase, total, file_paths,
          loaded, printed, decoded, viewer_tracks, kwargs, artifact, returned>>

(***************************************************************************)
(* Bounds of the model.                                                    *)
(***************************************************************************)
MaxTracks == 2
MaxDepth == 2
MaxLen == 3
MaxPasses == 2
MantissaBits == 3

(***************************************************************************)
(* The window: values.                                                     *)
(***************************************************************************)
EmptyDict == [k \in {} |-> 0]

Centers == {<<46, 6>>}
Zooms == {12, 13}

\* The dicts a viewer may hand back as view state: {} or a centre and a zoom.
ViewStates ==
    {EmptyDict} \cup
    {[current_center |-> c, current_zoom |-> z] : c \in Centers, z \in Zooms}

get_default_output_file == IF window = "map" THEN "track_map.html" ELSE "track_curves.html"

abspath(f) == "/cwd/" \o f

\* The artifact references create_view may return for an output file.
ViewFiles == {get_default_output_file, abspath(get_default_output_file)}

\* What the page answers to the viewport query: null, text that is no JSON, or
\* the JSON text of an object.  A JSON number is <<"number", n>>; the zoom is
\* kept in tenths so that int() has something to truncate.
JsNull == [kind |-> "null", obj |-> EmptyDict]
JsText == [kind |-> "text", obj |-> EmptyDict]
JsObject(o) == [kind |-> "json", obj |-> o]
Num(n) == <<"number", n>>
JsonNull == <<"null", 0>>

Payloads ==
    {JsNull, JsText,
     JsObject([lat |-> Num(46), lng |-> Num(6), zoom |-> Num(125)]),
     JsObject([lat |-> Num(46), lng |-> Num(6), zoom |-> JsonNull])}

\* if result_holder['result']: None is falsy, a non-empty string is truthy.
Truthy(p) == p.kind # "null"

\* json.loads, view_data['lat'], view_data['lng'], int(view_data['zoom']) all
\* succeed.
ParseOk(p) ==
    /\ Truthy(p)
    /\ p.kind = "json"
    /\ {"lat", "lng", "zoom"} \subseteq DOMAIN p.obj
    /\ p.obj["zoom"][1] = "number"

\* int() of a number kept in tenths.
IntOf(v) == v[2] \div 10

ParsedView(p) ==
    [current_center |-> <<p.obj["lat"][2], p.obj["lng"][2]>>,
     current_zoom |-> IntOf(p.obj["zoom"])]

Top == stack[Len(stack)]
Pop == SubSeq(stack, 1, Len(stack) - 1)

\* No handler is running, or the innermost one sits in the nested event loop
\* of _capture_current_view, which dispatches further events.
CanDispatch ==
    /\ Len(stack) < MaxDepth
    /\ IF stack = <<>> THEN TRUE ELSE Top.pc = "wait" /\ ~Top.quit

\* regenerate_view as the last step ran it: what it was called for, the
\* view_state and current_view_file it found, the options it handed to
\* create_view and the number of errors it reported.
Rendered(outcome, options, errors) ==
    [outcome |-> outcome, cause |-> Top.cause, fit_bounds |-> Top.fit_bounds,
     prior_view |-> view_state, prior_file |-> current_view_file,
     options |-> options, errors |-> errors]

NoRender ==
    [outcome |-> "none", cause |-> "none", fit_bounds |-> FALSE,
     prior_view |-> EmptyDict, prior_file |-> "None",
     options |-> EmptyDict, errors |-> 0]

(***************************************************************************)
(* The window: operations.                                                 *)
(***************************************************************************)
\* MapWindow.get_viewer_options / CurveWindow.get_viewer_options.
get_viewer_options ==
    IF window = "map"
    THEN [base_map |-> "OpenTopoMap", color_mode |-> "Plain",
          show_legend |-> show_legend, zoom_control |-> show_zoom_controls]
    ELSE [chart_type |-> "Altitude Profile", x_axis |-> "Distance (km)",
          show_legend |-> show_legend]

\* The buggy variant: the stored view state is passed whatever fit_bounds is.
create_view_options_ignoring_fit(fit_bounds) ==
    LET options == [fit_bounds |-> fit_bounds] @@ get_viewer_options
    IN  IF view_state # EmptyDict THEN view_state @@ options ELSE options

\* BaseWindow.regenerate_view: the options handed to create_view.
create_view_options(fit_bounds) ==
    LET options == [fit_bounds |-> fit_bounds] @@ get_viewer_options
    IN  IF ~fit_bounds /\ view_state # EmptyDict
        THEN view_state @@ options
        ELSE options

\* MapWindow.initialize_empty_view / CurveWindow.initialize_empty_view.
initialize_empty_view == abspath(get_default_output_file)

\* The frame of a running on_viewer_properties_changed(fit_bounds): a map
\* window first captures the live viewport when it is to keep the view.
WillCapture(fit_bounds, ntracks) ==
    window = "map" /\ ~fit_bounds /\ current_view_file # "None" /\ ntracks > 0

\* A frame that has left (or never entered) the viewport query keeps only the
\* handler's cause and argument.
Regen(cause, fit_bounds) ==
    [cause |-> cause, fit_bounds |-> fit_bounds, pc |-> "regen",
     result |-> JsNull, answered |-> FALSE, quit |-> FALSE, before |-> EmptyDict]

Frame(cause, fit_bounds, ntracks) ==
    IF WillCapture(fit_bounds, ntracks)
    THEN [cause |-> cause, fit_bounds |-> fit_bounds, pc |-> "wait",
          result |-> JsNull, answered |-> FALSE, quit |-> FALSE,
          before |-> view_state]
    ELSE Regen(cause, fit_bounds)

on_viewer_properties_changed(cause, fit_bounds, ntracks) ==
    stack' = Append(stack, Frame(cause, fit_bounds, ntracks))

\* BaseWindow.on_tracks_changed, on the track manager's tracks_changed signal.
on_tracks_changed(n) ==
    /\ CanDispatch
    /\ n # tracks
    /\ tracks' = n
    /\ IF n = 0
       THEN /\ current_view_file' = initialize_empty_view
            /\ view_state' = EmptyDict
            /\ UNCHANGED stack
       ELSE /\ on_viewer_properties_changed("tracks", TRUE, n)
            /\ UNCHANGED <<current_view_file, view_state>>
    /\ render' = NoRender
    /\ UNCHANGED <<window, show_legend, show_zoom_controls>>
    /\ UNCHANGED <<trackVars, decodeVars>>

\* The buggy variant: a property edit asks for the bounds to be fitted.
on_track_properties_changed_fitting ==
    /\ CanDispatch
    /\ tracks > 0
    /\ on_viewer_properties_changed("track_property", TRUE, tracks)
    /\ render' = NoRender
    /\ UNCHANGED <<window, tracks, current_view_file, view_state, show_legend,
                   show_zoom_controls>>
    /\ UNCHANGED <<trackVars, decodeVars>>

\* BaseWindow.on_track_properties_changed, on a track item's name, colour or
\* width edit (an item exists only for a loaded track).
on_track_properties_changed ==
    /\ CanDispatch
    /\ tracks > 0
    /\ on_viewer_properties_changed("track_property", FALSE, tracks)
    /\ render' = NoRender
    /\ UNCHANGED <<window, tracks, current_view_file, view_state, show_legend,
                   show_zoom_controls>>
    /\ UNCHANGED <<trackVars, decodeVars>>

\* CurveWindow.on_show_legend_changed.
on_show_legend_changed(state) ==
    /\ CanDispatch
    /\ window = "curve"
    /\ state # show_legend
    /\ show_legend' = state
    /\ IF tracks > 0
       THEN on_viewer_properties_changed("viewer_option", FALSE, tracks)
       ELSE UNCHANGED stack
    /\ render' = NoRender
    /\ UNCHANGED <<window, tracks, current_view_file, view_state,
                   show_zoom_controls>>
    /\ UNCHANGED <<trackVars, decodeVars>>

\* MapWindow.on_show_zoom_controls_changed.
on_show_zoom_controls_changed(state) ==
    /\ CanDispatch
    /\ window = "map"
    /\ state # show_zoom_controls
    /\ show_zoom_controls' = state
    /\ IF tracks > 0
       THEN /\ on_viewer_properties_changed("viewer_option", FALSE, tracks)
            /\ UNCHANGED current_view_file
       ELSE /\ current_view_file' = initialize_empty_view
            /\ UNCHANGED stack
    /\ render' = NoRender
    /\ UNCHANGED <<window, tracks, view_state, show_legend>>
    /\ UNCHANGED <<trackVars, decodeVars>>

\* handle_result of a viewport query that is still on the stack: the page's
\* answer is stored and the query's event loop is told to quit.
handle_result(i, p) ==
    /\ i \in 1..Len(stack)
    /\ stack[i].pc = "wait"
    /\ ~stack[i].answered
    /\ stack' = [stack EXCEPT ![i] = [@ EXCEPT !.result = p, !.answered = TRUE, !.quit = TRUE]]
    /\ render' = NoRender
    /\ UNCHANGED <<window, tracks, current_view_file, view_state, show_legend,
                   show_zoom_controls>>
    /\ UNCHANGED <<trackVars, decodeVars>>

\* QTimer.singleShot(200, loop.quit).
timeout(i) ==
    /\ i \in 1..Len(stack)
    /\ stack[i].pc = "wait"
    /\ ~stack[i].quit
    /\ stack' = [stack EXCEPT ![i] = [@ EXCEPT !.quit = TRUE]]
    /\ render' = NoRender
    /\ UNCHANGED <<window, tracks, current_view_file, view_state, show_legend,
                   show_zoom_controls>>
    /\ UNCHANGED <<trackVars, decodeVars>>

\* MapWindow._capture_current_view after loop.exec_(): the new view_state.
capture_parse(p) ==
    IF ParseOk(p) THEN ParsedView(p) ELSE view_state

\* MapWindow._capture_current_view returns: the innermost event loop has quit.
capture_current_view ==
    /\ stack # <<>>
    /\ Top.pc = "wait"
    /\ Top.quit
    /\ view_state' = capture_parse(Top.result)
    /\ stack' = [stack EXCEPT ![Len(stack)] = Regen(Top.cause, Top.fit_bounds)]
    /\ render' = NoRender
    /\ UNCHANGED <<window, tracks, current_view_file, show_legend,
                   show_zoom_controls>>
    /\ UNCHANGED <<trackVars, decodeVars>>

\* A variant in which the curve renderer hands back a view state as the map
\* renderer does.
create_view_results_with_view ==
    {<<f, vs>> : f \in ViewFiles, vs \in ViewStates}

\* BaseViewer.create_view as the window sees it: a reference to the artifact
\* and a view state dict.  CurveViewer always returns {}.
create_view_results ==
    {<<f, vs>> : f \in ViewFiles,
                 vs \in IF window = "curve" THEN {EmptyDict} ELSE ViewStates}

\* A variant that shows the empty view and keeps the stored view state.
regenerate_view_empty_keeping_state ==
    /\ tracks = 0
    /\ current_view_file' = initialize_empty_view
    /\ UNCHANGED view_state
    /\ render' = Rendered("empty", EmptyDict, 0)

\* regenerate_view with no tracks: the empty view.
regenerate_view_empty ==
    /\ tracks = 0
    /\ current_view_file' = initialize_empty_view
    /\ view_state' = EmptyDict
    /\ render' = Rendered("empty", EmptyDict, 0)

\* regenerate_view, create_view returns.
regenerate_view_created ==
    /\ tracks > 0
    /\ \E r \in create_view_results :
        /\ current_view_file' = r[1]
        /\ view_state' = r[2]
    /\ render' = Rendered("created", create_view_options(Top.fit_bounds), 0)

\* The buggy variant: the view state is reset before the viewer is called.
regenerate_view_failed_resetting ==
    /\ tracks > 0
    /\ view_state' = EmptyDict
    /\ UNCHANGED current_view_file
    /\ render' = Rendered("failed", create_view_options(Top.fit_bounds), 1)

\* regenerate_view, create_view raises: the except clause reports the error.
regenerate_view_failed ==
    /\ tracks > 0
    /\ UNCHANGED <<current_view_file, view_state>>
    /\ render' = Rendered("failed", create_view_options(Top.fit_bounds), 1)

\* BaseWindow.regenerate_view(fit_bounds), the last statement of
\* on_viewer_properties_changed; the handler then returns.
regenerate_view ==
    /\ stack # <<>>
    /\ Top.pc = "regen"
    /\ \/ regenerate_view_empty
       \/ regenerate_view_created
       \/ regenerate_view_failed
    /\ stack' = Pop
    /\ UNCHANGED <<window, tracks, show_legend, show_zoom_controls>>
    /\ UNCHANGED <<trackVars, decodeVars>>

(***************************************************************************)
(* The track: values.  None is the empty tuple; a timestamp is <<seconds>>; *)
(* a number is the fraction <<numerator, denominator>> in lowest terms     *)
(* with a positive denominator.  A Python float is a binary floating-point *)
(* number of MantissaBits significant bits and unbounded exponent: every   *)
(* float operation rounds its exact result to the nearest such number,     *)
(* ties to even (IEEE 754 double is the case of 53 bits).                  *)
(***************************************************************************)
None == <<>>

At(t) == <<t>>
Seconds(ts) == ts[1]

Abs(x) == IF x < 0 THEN -x ELSE x

RECURSIVE GCD(_, _)
GCD(a, b) == IF b = 0 THEN a ELSE GCD(b, a % b)

\* The fraction n / d, d # 0.
Rat(n, d) ==
    LET g == GCD(Abs(n), Abs(d))
        sgn == IF d < 0 THEN -1 ELSE 1
    IN  <<(sgn * n) \div g, (sgn * d) \div g>>

RAdd(x, y) == Rat(x[1] * y[2] + y[1] * x[2], x[2] * y[2])
RDiv(x, y) == Rat(x[1] * y[2], x[2] * y[1])
RMul(x, y) == Rat(x[1] * y[1], x[2] * y[2])

RECURSIVE Pow2(_)
Pow2(k) == IF k = 0 THEN 1 ELSE 2 * Pow2(k - 1)

\* The significand of a float lies in [MinSignificand, MaxSignificand).
MinSignificand == Pow2(MantissaBits - 1)
MaxSignificand == Pow2(MantissaBits)

\* The number of doublings of a until a / d reaches MinSignificand.
RECURSIVE ScaleUp(_, _)
ScaleUp(a, d) == IF a < MinSignificand * d THEN 1 + ScaleUp(2 * a, d) ELSE 0

\* The number of doublings of d until a / d falls below MaxSignificand.
RECURSIVE ScaleDown(_, _)
ScaleDown(a, d) == IF a >= MaxSignificand * d THEN 1 + ScaleDown(a, 2 * d) ELSE 0

\* a / d rounded to the nearest integer, ties to even.
RoundHalfEven(a, d) ==
    LET f == a \div d
        r == a % d
    IN  IF 2 * r < d THEN f
        ELSE IF 2 * r > d THEN f + 1
        ELSE IF f % 2 = 0 THEN f ELSE f + 1

\* The float nearest to the number x: x is scaled by a power of two into
\* [MinSignificand, MaxSignificand), rounded to an integer significand
\* and scaled back.
Fl(x) ==
    IF x[1] = 0 THEN x
    ELSE LET a == Abs(x[1])
             up == ScaleUp(a, x[2])
             down == ScaleDown(a, x[2])
             m == RoundHalfEven(a * Pow2(up), x[2] * Pow2(down))
             sgn == IF x[1] < 0 THEN -1 ELSE 1
         IN  Rat(sgn * m * Pow2(down), Pow2(up))

\* Float addition, division and multiplication.
FAdd(x, y) == Fl(RAdd(x, y))
FDiv(x, y) == Fl(RDiv(x, y))
FMul(x, y) == Fl(RMul(x, y))

\* An int as the divisor or factor of a float operation.
OfInt(k) == Rat(k, 1)

\* The seconds a timestamp may carry, and the values a channel may carry.
Times == {0, 5, 10}
ChannelValues == {Rat(0, 1), Rat(6, 1)}

\* The channels the windowed average is applied to.
Channels == {"power", "vertical_speed_mh", "speed"}

\* dataclass TrackPoint, with the fields the derivations read or write.
TrackPoint(lat, ts, chan, v) ==
    [latitude |-> lat, longitude |-> 0, timestamp |-> ts,
     vertical_speed_ms |-> IF chan = "vertical_speed_mh" /\ v # None
                           THEN FDiv(v, OfInt(3600)) ELSE None,
     vertical_speed_mh |-> IF chan = "vertical_speed_mh" THEN v ELSE None,
     power |-> IF chan = "power" THEN v ELSE None,
     speed |-> IF chan = "speed" THEN v ELSE None]

Timestamps == {None} \cup {At(t) : t \in Times}

\* Tracks of up to MaxLen points that carry one channel.
ChannelPoints(chan) ==
    {TrackPoint(0, ts, chan, v) : ts \in Timestamps, v \in {None} \cup ChannelValues}

\* The points of a track on one meridian, with or without a speed of their
\* own; point i of a track lies at latitude i.
SpeedPoints ==
    {TrackPoint(0, ts, "speed", v) : ts \in Timestamps, v \in {None, Rat(10, 1)}}

AlongMeridian(pts) == [i \in 1..Len(pts) |-> [pts[i] EXCEPT !.latitude = i]]

SeqsUpTo(S, n) == UNION {[1..k -> S] : k \in 0..n}

(***************************************************************************)
(* The track: the windowed average.                                        *)
(***************************************************************************)
\* The buggy variant: the comparison is inverted.
OutOfWindow_inverted(time_diff, window_seconds) == 2 * time_diff < window_seconds

\* A variant that ends the scan at a neighbour exactly half a window away.
OutOfWindow_inclusive(time_diff, window_seconds) == 2 * time_diff >= window_seconds

\* time_diff > half_window, with half_window = window_seconds / 2.
OutOfWindow(time_diff, window_seconds) == 2 * time_diff > window_seconds

\* abs((point.timestamp - other.timestamp).total_seconds())
TimeDiff(point, other) == Abs(Seconds(point.timestamp) - Seconds(other.timestamp))

\* The buggy variant: a neighbour in the window is counted whether or not it
\* has a value.
RECURSIVE Scan_counting_missing(_, _, _, _, _, _)
Scan_counting_missing(pts, snapshot, i, js, window_seconds, acc) ==
    IF js = <<>> THEN acc
    ELSE LET j == Head(js)
             other == pts[j]
         IN  IF other.timestamp = None
             THEN Scan_counting_missing(pts, snapshot, i, Tail(js), window_seconds, acc)
             ELSE IF OutOfWindow(TimeDiff(pts[i], other), window_seconds)
             THEN acc
             ELSE Scan_counting_missing(pts, snapshot, i, Tail(js), window_seconds,
                      [sum |-> IF snapshot[j] # None
                               THEN FAdd(acc.sum, snapshot[j]) ELSE acc.sum,
                       count |-> acc.count + 1])

\* A variant in which a neighbour without timestamp ends the scan.
RECURSIVE Scan_stopping_at_untimed(_, _, _, _, _, _)
Scan_stopping_at_untimed(pts, snapshot, i, js, window_seconds, acc) ==
    IF js = <<>> THEN acc
    ELSE LET j == Head(js)
             other == pts[j]
         IN  IF other.timestamp = None
             THEN acc
             ELSE IF OutOfWindow(TimeDiff(pts[i], other), window_seconds)
             THEN acc
             ELSE IF snapshot[j] # None
             THEN Scan_stopping_at_untimed(pts, snapshot, i, Tail(js), window_seconds,
                       [sum |-> FAdd(acc.sum, snapshot[j]), count |-> acc.count + 1])
             ELSE Scan_stopping_at_untimed(pts, snapshot, i, Tail(js), window_seconds, acc)

\* One scan of the window of point i over the indices js, nearest first: a
\* neighbour without timestamp is passed over, the scan ends at the first
\* neighbour out of the window, and a neighbour in it adds its snapshot value.
RECURSIVE Scan(_, _, _, _, _, _)
Scan(pts, snapshot, i, js, window_seconds, acc) ==
    IF js = <<>> THEN acc
    ELSE LET j == Head(js)
             other == pts[j]
         IN  IF other.timestamp = None
             THEN Scan(pts, snapshot, i, Tail(js), window_seconds, acc)
             ELSE IF OutOfWindow(TimeDiff(pts[i], other), window_seconds)
             THEN acc
             ELSE IF snapshot[j] # None
             THEN Scan(pts, snapshot, i, Tail(js), window_seconds,
                       [sum |-> FAdd(acc.sum, snapshot[j]), count |-> acc.count + 1])
             ELSE Scan(pts, snapshot, i, Tail(js), window_seconds, acc)

\* A variant whose forward scan starts at point i itself.
Forward_from_point(i, n) == [k \in 1..(n - i + 1) |-> i + k - 1]

\* range(i, -1, -1) and range(i + 1, len(self.points)), 1-based.
Backward(i) == [k \in 1..i |-> i + 1 - k]
Forward(i, n) == [k \in 1..(n - i) |-> i + k]

\* window_sum and window_count of point i after both scans.
Window(pts, snapshot, i, window_seconds) ==
    Scan(pts, snapshot, i, Forward(i, Len(pts)), window_seconds,
         Scan(pts, snapshot, i, Backward(i), window_seconds,
              [sum |-> Rat(0, 1), count |-> 0]))

\* The buggy variant: the m/s value is written to the m/h field as well.
Assign_units_mixed(point, chan, value) ==
    IF chan = "vertical_speed_mh"
    THEN [point EXCEPT !.vertical_speed_mh = FDiv(value, OfInt(3600)),
                       !.vertical_speed_ms = FDiv(value, OfInt(3600))]
    ELSE [point EXCEPT ![chan] = value]

\* The assignment that ends the loop body: the channel, and for the vertical
\* speed its m/s companion.
Assign(point, chan, value) ==
    IF chan = "vertical_speed_mh"
    THEN [point EXCEPT !.vertical_speed_mh = value,
                       !.vertical_speed_ms = FDiv(value, OfInt(3600))]
    ELSE [point EXCEPT ![chan] = value]

\* A variant that averages over the values as the pass has left them so far.
RECURSIVE AverageLoop_in_place(_, _, _, _, _)
AverageLoop_in_place(pts, snapshot, i, chan, window_seconds) ==
    IF i > Len(pts) THEN pts
    ELSE IF pts[i][chan] = None \/ pts[i].timestamp = None
    THEN AverageLoop_in_place(pts, snapshot, i + 1, chan, window_seconds)
    ELSE LET w == Window(pts, [k \in 1..Len(pts) |-> pts[k][chan]], i, window_seconds)
         IN  IF w.count > 0
             THEN AverageLoop_in_place(
                      [pts EXCEPT ![i] = Assign(pts[i], chan, FDiv(w.sum, OfInt(w.count)))],
                      snapshot, i + 1, chan, window_seconds)
             ELSE AverageLoop_in_place(pts, snapshot, i + 1, chan, window_seconds)

\* for i, point in enumerate(self.points), from point i on.
RECURSIVE AverageLoop(_, _, _, _, _)
AverageLoop(pts, snapshot, i, chan, window_seconds) ==
    IF i > Len(pts) THEN pts
    ELSE IF pts[i][chan] = None \/ pts[i].timestamp = None
    THEN AverageLoop(pts, snapshot, i + 1, chan, window_seconds)
    ELSE LET w == Window(pts, snapshot, i, window_seconds)
         IN  IF w.count > 0
             THEN AverageLoop([pts EXCEPT ![i] = Assign(pts[i], chan, FDiv(w.sum, OfInt(w.count)))],
                              snapshot, i + 1, chan, window_seconds)
             ELSE AverageLoop(pts, snapshot, i + 1, chan, window_seconds)

\* Track._average_power / _average_vertical_speed / _average_speed: the three
\* are the same code over their own field.
WindowAverage(pts, chan, window_seconds) ==
    IF pts = <<>> \/ ~\E i \in 1..Len(pts) : pts[i][chan] # None /\ pts[i].timestamp # None
    THEN pts
    ELSE AverageLoop(pts, [i \in 1..Len(pts) |-> pts[i][chan]], 1, chan, window_seconds)

average_power(pts, window_seconds) == WindowAverage(pts, "power", window_seconds)
average_vertical_speed(pts, window_seconds) == WindowAverage(pts, "vertical_speed_mh", window_seconds)
average_speed(pts, window_seconds) == WindowAverage(pts, "speed", window_seconds)

\* Track.apply_window_averaging.
apply_window_averaging(pts) ==
    IF Len(pts) < 2 THEN pts ELSE average_vertical_speed(pts, 15)


(***************************************************************************)
(* The track: speed derivation.                                            *)
(***************************************************************************)
\* The haversine distance in metres of two points of one meridian, which is
\* r * |dlat|; a unit of latitude is the 0.0009 degrees that make 100 m.
Haversine(p1, p2) == 100 * Abs(p2.latitude - p1.latitude)

\* The buggy variant: only an equal timestamp is refused.
PositiveDelta_nonzero(time_diff) == time_diff # 0

\* if time_diff > 0
PositiveDelta(time_diff) == time_diff > 0

\* The loop body of calculate_speed for the pair (i - 1, i).
SpeedOfPair(pts, i) ==
    LET p1 == pts[i - 1]
        p2 == pts[i]
    IN  IF p2.speed = None /\ p1.timestamp # None /\ p2.timestamp # None
        THEN LET time_diff == Seconds(p2.timestamp) - Seconds(p1.timestamp)
             IN  IF PositiveDelta(time_diff)
                 THEN [p2 EXCEPT !.speed = FMul(FDiv(OfInt(Haversine(p1, p2)), OfInt(time_diff)),
                                                Fl(Rat(36, 10)))]
                 ELSE p2
        ELSE p2

\* for i in range(1, len(self.points)), from pair i on.
RECURSIVE SpeedLoop(_, _)
SpeedLoop(pts, i) ==
    IF i > Len(pts) THEN pts
    ELSE SpeedLoop([pts EXCEPT ![i] = SpeedOfPair(pts, i)], i + 1)

\* Track.calculate_speed.
calculate_speed(pts) ==
    IF Len(pts) < 2 THEN pts
    ELSE IF ~\E i \in 1..Len(pts) : pts[i].speed = None /\ pts[i].timestamp # None
    THEN pts
    ELSE LET done == SpeedLoop(pts, 2)
         IN  IF done[1].speed = None /\ Len(done) > 1 /\ done[2].speed # None
             THEN [done EXCEPT ![1].speed = done[2].speed]
             ELSE done

(***************************************************************************)
(* The track: a derivation applied to a track, once and again.             *)
(***************************************************************************)
Windows == {0, 10}

AverageNames == {"_average_power", "_average_vertical_speed", "_average_speed"}

AverageOps ==
    {[name |-> n, window_seconds |-> w] : n \in AverageNames, w \in Windows}
    \cup {[name |-> "apply_window_averaging", window_seconds |-> 15]}

SpeedOp == [name |-> "calculate_speed", window_seconds |-> 0]

\* The channel an averaging operation works on.
ChannelOf(o) ==
    CASE o.name = "_average_power" -> "power"
      [] o.name = "_average_speed" -> "speed"
      [] OTHER -> "vertical_speed_mh"

\* The operation as a function of the track.
Apply(o, pts) ==
    CASE o.name = "_average_power" -> average_power(pts, o.window_seconds)
      [] o.name = "_average_vertical_speed" -> average_vertical_speed(pts, o.window_seconds)
      [] o.name = "_average_speed" -> average_speed(pts, o.window_seconds)
      [] o.name = "apply_window_averaging" -> apply_window_averaging(pts)
      [] o.name = "calculate_speed" -> calculate_speed(pts)
      [] OTHER -> pts

\* The derivation under test runs once more on the track.
\* No decoder and no batch is running.
NoDecoding ==
    /\ source = <<>>
    /\ cursor = 0
    /\ flight_date = None
    /\ origin = <<>>
    /\ phase = "none"
    /\ total = None
    /\ file_paths = <<>>
    /\ loaded = <<>>
    /\ printed = <<>>
    /\ decoded = <<>>
    /\ viewer_tracks = <<>>
    /\ kwargs = <<>>
    /\ artifact = <<>>
    /\ returned = <<>>

Derive ==
    /\ passes < MaxPasses
    /\ points' = Apply(op, points)
    /\ passes' = passes + 1
    /\ UNCHANGED <<original, op>>
    /\ UNCHANGED <<winVars, decodeVars>>

AveragePower ==
    /\ op.name = "_average_power"
    /\ Derive

AverageVerticalSpeed ==
    /\ op.name = "_average_vertical_speed"
    /\ Derive

AverageSpeed ==
    /\ op.name = "_average_speed"
    /\ Derive

ApplyWindowAveraging ==
    /\ op.name = "apply_window_averaging"
    /\ Derive

CalculateSpeed ==
    /\ op.name = "calculate_speed"
    /\ Derive

\* A decoded track and the derivation that is run on it.
TrackInit ==
    /\ window = "map"
    /\ tracks = 0
    /\ current_view_file = initialize_empty_view
    /\ view_state = EmptyDict
    /\ show_legend = FALSE
    /\ show_zoom_controls = FALSE
    /\ stack = <<>>
    /\ render = NoRender
    /\ op \in AverageOps \cup {SpeedOp}
    /\ points \in IF op = SpeedOp
                  THEN {AlongMeridian(pts) : pts \in SeqsUpTo(SpeedPoints, MaxLen)}
                  ELSE SeqsUpTo(ChannelPoints(ChannelOf(op)), MaxLen)
    /\ original = points
    /\ passes = 0
    /\ NoDecoding

TrackNext ==
    \/ AveragePower
    \/ AverageVerticalSpeed
    \/ AverageSpeed
    \/ ApplyWindowAveraging
    \/ CalculateSpeed

TrackSpec == TrackInit /\ [][TrackNext]_vars

\* The derivation runs on the decoded track once and no more: the track that
\* a single call of the operation leaves.
ScanNext == passes = 0 /\ TrackNext

ScanSpec == TrackInit /\ [][ScanNext]_vars


\* The state after BaseWindow.__init__ / setup_ui.
Init ==
    /\ window \in {"map", "curve"}
    /\ tracks = 0
    /\ current_view_file = initialize_empty_view
    /\ view_state = EmptyDict
    /\ show_legend = (window = "curve")
    /\ show_zoom_controls = FALSE
    /\ stack = <<>>
    /\ render = NoRender
    /\ points = <<>>
    /\ original = <<>>
    /\ op = [name |-> "none", window_seconds |-> 0]
    /\ passes = 0
    /\ NoDecoding

Next ==
    \/ \E n \in 0..MaxTracks : on_tracks_changed(n)
    \/ on_track_properties_changed
    \/ \E s \in BOOLEAN : on_show_legend_changed(s)
    \/ \E s \in BOOLEAN : on_show_zoom_controls_changed(s)
    \/ \E i \in 1..MaxDepth, p \in Payloads : handle_result(i, p)
    \/ \E i \in 1..MaxDepth : timeout(i)
    \/ capture_current_view
    \/ regenerate_view

Spec == Init /\ [][Next]_vars

(***************************************************************************)
(* The window: claims.                                                     *)
(***************************************************************************)
Called == render.outcome \in {"created", "failed"}

HasView(options) == {"current_center", "current_zoom"} \cap DOMAIN options # {}

PropertyCauses == {"track_property", "viewer_option"}

\* C1: the options regenerate_view hands to create_view carry the stored view
\* state (current_center, current_zoom) exactly when the render is issued with
\* fit_bounds = false and the stored view state is not empty; with
\* fit_bounds = true they never carry it.
C1_OptionsCarryStoredView ==
    Called =>
        /\ render.options["fit_bounds"] = render.fit_bounds
        /\ HasView(render.options) <=>
               (~render.fit_bounds /\ render.prior_view # EmptyDict)
        /\ HasView(render.options) =>
               /\ render.options["current_center"] = render.prior_view["current_center"]
               /\ render.options["current_zoom"] = render.prior_view["current_zoom"]

C1_Witness ==
    /\ render.outcome = "created"
    /\ ~render.fit_bounds
    /\ render.prior_view # EmptyDict
    /\ "current_zoom" \in DOMAIN render.options

\* C2: a re-render caused by a track property edit or a viewer option change
\* is issued with fit_bounds = false, one caused by a change of the track set
\* (some track remaining) with fit_bounds = true.
C2_FitBoundsFollowsCause ==
    Called =>
        /\ render.cause \in PropertyCauses \cup {"tracks"}
        /\ render.options["fit_bounds"] = (render.cause = "tracks")

C2_Witness ==
    /\ render.outcome = "created"
    /\ render.cause = "tracks"
    /\ render.options["fit_bounds"]
    /\ stack # <<>>

\* C3: when the viewport query times out, answers null or answers a payload
\* that does not parse, view_state after _capture_current_view is the value
\* it had before the query; otherwise it is the parsed centre and zoom.
C3_CaptureKeepsViewState ==
    [][(/\ stack # <<>>
        /\ Top.pc = "wait"
        /\ Top.quit
        /\ Len(stack') = Len(stack)
        /\ stack'[Len(stack)].pc = "regen")
       => view_state' = IF ParseOk(Top.result)
                        THEN ParsedView(Top.result)
                        ELSE Top.before]_vars

\* C4: when create_view raises, regenerate_view reports one error and leaves
\* view_state and current_view_file as they were before the call.
C4_FailedRenderKeepsState ==
    render.outcome = "failed" =>
        /\ render.errors = 1
        /\ view_state = render.prior_view
        /\ current_view_file = render.prior_file

C4_Witness ==
    /\ render.outcome = "failed"
    /\ render.prior_view # EmptyDict
    /\ view_state = render.prior_view

\* The viewport queries whose event loop still waits for the answer or the
\* timer.
InFlight == {i \in 1..Len(stack) : stack[i].pc = "wait" /\ ~stack[i].quit}

\* C5: at most one viewport query is in flight at any time.
C5_OneQueryInFlight == Cardinality(InFlight) <= 1

\* C6: a property edit received while tracks are loaded reaches create_view:
\* the regenerate_view call that ends its handler calls the viewer.
C6_PropertyEditReachesViewer ==
    render.cause \in PropertyCauses => Called

(***************************************************************************)
(* The track: claims.                                                      *)
(***************************************************************************)
IsAverage == op \in AverageOps

chan == ChannelOf(op)

\* The point has both a timestamp and a value for the channel.
Has(p) == p.timestamp # None /\ p[chan] # None

\* The channel's value at every point of the track.
Values(pts) == [i \in 1..Len(pts) |-> pts[i][chan]]

Valued(pts) == {i \in 1..Len(pts) : Has(pts[i])}

Timed(pts) == {i \in 1..Len(pts) : pts[i].timestamp # None}

\* The number of values the scans of point i collect on the track pts.
WindowCount(pts, i) ==
    Window(pts, [j \in 1..Len(pts) |-> pts[j][chan]], i, op.window_seconds).count

\* No point with a timestamp has another one within half the window.
Isolated(pts) ==
    \A i, j \in Timed(pts) :
        i # j => OutOfWindow(TimeDiff(pts[i], pts[j]), op.window_seconds)

\* Every point with a timestamp and a value carries the same value.
Constant(pts) == \A i, j \in Valued(pts) : pts[i][chan] = pts[j][chan]

DistinctTimestamps(pts) ==
    \A i, j \in Timed(pts) : i # j => pts[i].timestamp # pts[j].timestamp

\* C7 as stated: a second application of the windowed average leaves every
\* point as the first application left it.
C7_AveragingIdempotent ==
    (IsAverage /\ passes >= 2) => Values(points) = Values(Apply(op, original))

\* C7 as amended: on a track in which no timestamped point has another
\* timestamped point within half the window, a second (and any further)
\* application of the windowed average leaves every point as the first
\* application left it.
C7_AveragingIdempotentWhenIsolated ==
    (IsAverage /\ passes >= 2 /\ Isolated(original)) =>
        Values(points) = Values(Apply(op, original))

C7_Witness ==
    /\ IsAverage
    /\ passes = 2
    /\ op.window_seconds = 10
    /\ Isolated(original)
    /\ Cardinality(Valued(original)) >= 2

\* C8 as stated: when every point with a timestamp and a value carries the
\* same value c, every such point still has the value c after the windowed
\* average.
C8_ConstantPreserved ==
    (IsAverage /\ passes = 1 /\ Constant(original)) =>
        \A i \in Valued(original) : points[i][chan] = original[i][chan]

\* C8 as amended: when every point with a timestamp and a value carries the
\* same value c, every such point whose window holds at most two values
\* still has exactly the value c after the windowed average.
C8_ConstantPreservedUpToTwo ==
    (IsAverage /\ passes = 1 /\ Constant(original)) =>
        \A i \in Valued(original) :
            WindowCount(original, i) <= 2 => points[i][chan] = original[i][chan]

C8_Witness ==
    /\ IsAverage
    /\ passes = 1
    /\ Constant(original)
    /\ \E i \in Valued(original) :
        /\ WindowCount(original, i) = 2
        /\ original[i][chan] # Rat(0, 1)
        /\ points[i][chan] = original[i][chan]
    /\ \E j \in 1..Len(original) : ~Has(original[j])

\* C9 as stated: with a window width of 0 every point's channel value after
\* the pass equals its value before.
C9_ZeroWindowIdentity ==
    (IsAverage /\ op.window_seconds = 0 /\ passes = 1) =>
        Values(points) = Values(original)

\* C9 as amended: with a window width of 0 every point's channel value after
\* the pass equals its value before, on every track in which no two points
\* carry the same timestamp.
C9_ZeroWindowIdentityDistinctTimes ==
    (IsAverage /\ op.window_seconds = 0 /\ passes >= 1 /\ DistinctTimestamps(original))
        => Values(points) = Values(original)

C9_Witness ==
    /\ IsAverage
    /\ op.window_seconds = 0
    /\ passes = 1
    /\ DistinctTimestamps(original)
    /\ \E i, j \in Valued(original) : original[i][chan] # original[j][chan]

\* The consecutive pair (i - 1, i) lacks a timestamp or has a time delta <= 0.
Malformed(pts, i) ==
    \/ pts[i - 1].timestamp = None
    \/ pts[i].timestamp = None
    \/ Seconds(pts[i].timestamp) - Seconds(pts[i - 1].timestamp) <= 0

\* C10 as stated: after calculate_speed both points of every consecutive pair
\* with a missing timestamp or a time delta <= 0 have the speed they had
\* before the call.
C10_MalformedPairUntouched ==
    (op = SpeedOp /\ passes = 1) =>
        \A i \in 2..Len(original) :
            Malformed(original, i) =>
                /\ points[i - 1].speed = original[i - 1].speed
                /\ points[i].speed = original[i].speed

\* C10 as amended: after calculate_speed the later point of every consecutive
\* pair with a missing timestamp or a time delta <= 0 has the speed it had
\* before the call; the first point of the track changes only from no speed
\* to the copy of the second point's speed.
C10_MalformedPairComputesNothing ==
    (op = SpeedOp /\ passes = 1) =>
        /\ \A i \in 2..Len(original) :
              Malformed(original, i) => points[i].speed = original[i].speed
        /\ (Len(original) >= 1 /\ points[1].speed # original[1].speed) =>
              /\ original[1].speed = None
              /\ Len(points) >= 2
              /\ points[1].speed = points[2].speed

C10_Witness ==
    /\ op = SpeedOp
    /\ passes = 1
    /\ \E i \in 2..Len(original) :
        /\ Malformed(original, i)
        /\ original[i].speed = None
        /\ original[i].timestamp # None
        /\ points[i].speed = None
    /\ \E j \in 2..Len(original) : points[j].speed # original[j].speed

(***************************************************************************)
(* Track.get_total_distance.                                               *)
(***************************************************************************)
\* No window is open.
NoWindow ==
    /\ window = "map"
    /\ tracks = 0
    /\ current_view_file = initialize_empty_view
    /\ view_state = EmptyDict
    /\ show_legend = FALSE
    /\ show_zoom_controls = FALSE
    /\ stack = <<>>
    /\ render = NoRender

\* No derivation is run.
NoDerivation ==
    /\ original = <<>>
    /\ op = [name |-> "none", window_seconds |-> 0]
    /\ passes = 0

\* The latitudes of the points added to the measured track; they lie on one
\* meridian.
Latitudes == {0, 1, 3, 6}

\* c * r with r = 6371: the distance of Haversine in kilometres.
HaversineKm(p1, p2) == Fl(Rat(Haversine(p1, p2), 1000))

\* for i in range(len(self.points) - 1): total += c * r, from pair i on
\* (pair i is points[i], points[i + 1], 1-based).
RECURSIVE DistanceLoop(_, _, _)
DistanceLoop(pts, i, acc) ==
    IF i > Len(pts) - 1 THEN acc
    ELSE DistanceLoop(pts, i + 1, FAdd(acc, HaversineKm(pts[i], pts[i + 1])))

\* The buggy variant: the last total is kept and returned again.
get_total_distance_cached(pts) ==
    IF total # None THEN total
    ELSE IF Len(pts) < 2 THEN Rat(0, 1)
    ELSE DistanceLoop(pts, 1, Rat(0, 1))

\* Track.get_total_distance.
get_total_distance(pts) ==
    IF Len(pts) < 2 THEN Rat(0, 1)
    ELSE DistanceLoop(pts, 1, Rat(0, 1))

\* Track.add_point on the measured track.
AddPoint(lat) ==
    /\ Len(points) < MaxLen
    /\ points' = Append(points, TrackPoint(lat, None, "speed", None))
    /\ phase' = "added"
    /\ UNCHANGED <<winVars, derivVars, parseVars, batchVars, curveVars, total>>

\* A call of get_total_distance on the track as it is.
GetTotalDistance ==
    /\ total' = get_total_distance(points)
    /\ phase' = "measured"
    /\ UNCHANGED <<winVars, trackVars, parseVars, batchVars, curveVars>>

DistanceInit ==
    /\ NoWindow
    /\ NoDerivation
    /\ points = <<>>
    /\ source = <<>>
    /\ cursor = 0
    /\ flight_date = None
    /\ origin = <<>>
    /\ phase = "created"
    /\ total = None
    /\ file_paths = <<>>
    /\ loaded = <<>>
    /\ printed = <<>>
    /\ decoded = <<>>
    /\ viewer_tracks = <<>>
    /\ kwargs = <<>>
    /\ artifact = <<>>
    /\ returned = <<>>

DistanceNext ==
    \/ \E lat \in Latitudes : AddPoint(lat)
    \/ GetTotalDistance

DistanceSpec == DistanceInit /\ [][DistanceNext]_vars

\* The distances of the consecutive pairs of the track, in insertion order.
PairDistances(pts) == [i \in 1..(Len(pts) - 1) |-> HaversineKm(pts[i], pts[i + 1])]

\* The sum of the first n distances.
RECURSIVE SumOfFirst(_, _)
SumOfFirst(ds, n) == IF n = 0 THEN Rat(0, 1) ELSE FAdd(SumOfFirst(ds, n - 1), ds[n])

\* C11: what get_total_distance returned is 0 for a track of fewer than two
\* points and otherwise the sum of the distances of all consecutive pairs of
\* the points the track holds at the call, in insertion order; it is never
\* negative.
C11_TotalDistanceIsPairSum ==
    phase = "measured" =>
        /\ Len(points) < 2 => total = Rat(0, 1)
        /\ Len(points) >= 2 =>
              total = SumOfFirst(PairDistances(points), Len(points) - 1)
        /\ total[1] >= 0

C11_Witness ==
    /\ phase = "measured"
    /\ Len(points) = 3
    /\ points[1].latitude = 6
    /\ points[2].latitude = 0
    /\ points[3].latitude = 3
    /\ total[1] > 0

(***************************************************************************)
(* Text: a str is the sequence of its characters.                          *)
(***************************************************************************)
Digits == {"0", "1", "2", "3", "4", "5", "6", "7", "8", "9"}

DigitValue(c) ==
    CASE c = "0" -> 0 [] c = "1" -> 1 [] c = "2" -> 2 [] c = "3" -> 3
      [] c = "4" -> 4 [] c = "5" -> 5 [] c = "6" -> 6 [] c = "7" -> 7
      [] c = "8" -> 8 [] c = "9" -> 9

Whitespace == {" ", "\t", "\n", "\r"}

\* str.lstrip, str.rstrip and str.strip.
RECURSIVE LStrip(_)
LStrip(s) == IF s # <<>> /\ Head(s) \in Whitespace THEN LStrip(Tail(s)) ELSE s

RECURSIVE RStrip(_)
RStrip(s) ==
    IF s # <<>> /\ s[Len(s)] \in Whitespace THEN RStrip(SubSeq(s, 1, Len(s) - 1)) ELSE s

Strip(s) == RStrip(LStrip(s))

\* str.startswith and str.endswith.
StartsWith(s, prefix) ==
    Len(s) >= Len(prefix) /\ SubSeq(s, 1, Len(prefix)) = prefix

EndsWith(s, suffix) ==
    Len(s) >= Len(suffix) /\ SubSeq(s, Len(s) - Len(suffix) + 1, Len(s)) = suffix

\* s.replace(old, ''): every occurrence of old, left to right, is removed.
RECURSIVE Remove(_, _)
Remove(s, old) ==
    IF s = <<>> THEN s
    ELSE IF StartsWith(s, old) THEN Remove(SubSeq(s, Len(old) + 1, Len(s)), old)
    ELSE <<Head(s)>> \o Remove(Tail(s), old)

\* s[a:b] with 0 <= a <= b: the slice is cut at the end of s.
Slice(s, a, b) == SubSeq(s, a + 1, IF b < Len(s) THEN b ELSE Len(s))

\* The digits of an int literal: digits, with single underscores between them.
IsDigits(body) ==
    /\ body # <<>>
    /\ body[1] \in Digits
    /\ body[Len(body)] \in Digits
    /\ \A k \in 1..Len(body) : body[k] \in Digits \cup {"_"}
    /\ \A k \in 1..(Len(body) - 1) : ~(body[k] = "_" /\ body[k + 1] = "_")

RECURSIVE DigitsValue(_, _)
DigitsValue(body, acc) ==
    IF body = <<>> THEN acc
    ELSE IF Head(body) = "_" THEN DigitsValue(Tail(body), acc)
    ELSE DigitsValue(Tail(body), 10 * acc + DigitValue(Head(body)))

\* int(s): surrounding whitespace is dropped, one sign is accepted; the
\* result is the value or the ValueError.
ParseInt(s) ==
    LET t == Strip(s)
        signed == t # <<>> /\ t[1] \in {"+", "-"}
        body == IF signed THEN Tail(t) ELSE t
    IN  IF IsDigits(body)
        THEN [ok |-> TRUE,
              value |-> IF signed /\ t[1] = "-" THEN -DigitsValue(body, 0)
                        ELSE DigitsValue(body, 0)]
        ELSE [ok |-> FALSE, value |-> 0]

(***************************************************************************)
(* datetime.date and datetime.time.                                        *)
(***************************************************************************)
IsLeap(year) == year % 4 = 0 /\ (year % 100 # 0 \/ year % 400 = 0)

DaysIn(year, month) ==
    IF month = 2 THEN (IF IsLeap(year) THEN 29 ELSE 28)
    ELSE IF month \in {4, 6, 9, 11} THEN 30 ELSE 31

\* date(year, month, day) does not raise ValueError.
ValidDate(year, month, day) ==
    /\ year \in 1..9999
    /\ month \in 1..12
    /\ day \in 1..DaysIn(year, month)

\* time.replace(hour=, minute=, second=) does not raise ValueError.
ValidTime(hours, minutes, seconds) ==
    /\ hours \in 0..23
    /\ minutes \in 0..59
    /\ seconds \in 0..59

(***************************************************************************)
(* IGCParser.                                                              *)
(***************************************************************************)
HFDTE == <<"H", "F", "D", "T", "E">>
HFDTEDATE == <<"H", "F", "D", "T", "E", "D", "A", "T", "E", ":">>
DATE == <<"D", "A", "T", "E", ":">>

\* The buggy variant: every two-digit year is taken for a year of the 2000s.
Century_always_2000(year) == year + 2000

\* if year < 50: year += 2000 else: year += 1900.
Century(year) == IF year < 50 THEN year + 2000 ELSE year + 1900

\* IGCParser._parse_date: what it returns (None or the date <<year, month,
\* day>>), or that it raises ValueError.
parse_date(line) ==
    LET date_str == Strip(Remove(Remove(line, HFDTE), DATE))
        day == ParseInt(Slice(date_str, 0, 2))
        month == ParseInt(Slice(date_str, 2, 4))
        year == ParseInt(Slice(date_str, 4, 6))
    IN  IF Len(date_str) >= 6
        THEN IF day.ok /\ month.ok /\ year.ok
                /\ ValidDate(Century(year.value), month.value, day.value)
             THEN [raised |-> FALSE,
                   value |-> <<Century(year.value), month.value, day.value>>]
             ELSE [raised |-> TRUE, value |-> None]
        ELSE [raised |-> FALSE, value |-> None]

\* -x. Python's -0.0 compares equal to 0.0 (-0.0 < 0 is False): both are the
\* fraction 0.
Neg(x) == <<-x[1], x[2]>>

\* The buggy variant: the thousandths of a minute are taken for hundredths.
DecimalDegrees_hundredths(deg, min, min_dec) ==
    RAdd(OfInt(deg), RDiv(RAdd(OfInt(min), RDiv(OfInt(min_dec), OfInt(100))), OfInt(60)))

\* deg + (min + min_dec / 1000.0) / 60.0. The operands have at most eight
\* decimal digits, which a float carries with a relative error below 2^-52;
\* the value is kept as the fraction it stands for.
DecimalDegrees(deg, min, min_dec) ==
    RAdd(OfInt(deg), RDiv(RAdd(OfInt(min), RDiv(OfInt(min_dec), OfInt(1000))), OfInt(60)))

\* TrackPoint(latitude=, longitude=, altitude=, timestamp=).
ParsedPoint(latitude, longitude, altitude, timestamp) ==
    [latitude |-> latitude, longitude |-> longitude, altitude |-> altitude,
     timestamp |-> timestamp]

\* The buggy variant: a record of 35 characters is taken for too short.
TooShort_inclusive(line) == Len(line) <= 35

\* if len(line) < 35: return None.
TooShort(line) == Len(line) < 35

\* IGCParser._parse_b_record: None or the point of the record. Every
\* ValueError of int(), of date or of time.replace ends in return None.
parse_b_record(line, date) ==
    IF TooShort(line) THEN None
    ELSE LET hours == ParseInt(Slice(line, 1, 3))
             minutes == ParseInt(Slice(line, 3, 5))
             seconds == ParseInt(Slice(line, 5, 7))
             lat_deg == ParseInt(Slice(line, 7, 9))
             lat_min == ParseInt(Slice(line, 9, 11))
             lat_min_dec == ParseInt(Slice(line, 11, 14))
             lat_dir == line[15]
             lon_deg == ParseInt(Slice(line, 15, 18))
             lon_min == ParseInt(Slice(line, 18, 20))
             lon_min_dec == ParseInt(Slice(line, 20, 23))
             lon_dir == line[24]
             gps_alt == ParseInt(Slice(line, 30, 35))
             lat == DecimalDegrees(lat_deg.value, lat_min.value, lat_min_dec.value)
             lon == DecimalDegrees(lon_deg.value, lon_min.value, lon_min_dec.value)
         IN  IF ~(/\ hours.ok /\ minutes.ok /\ seconds.ok
                  /\ lat_deg.ok /\ lat_min.ok /\ lat_min_dec.ok
                  /\ lon_deg.ok /\ lon_min.ok /\ lon_min_dec.ok
                  /\ gps_alt.ok)
             THEN None
             ELSE IF date # None /\ ~ValidTime(hours.value, minutes.value, seconds.value)
             THEN None
             ELSE ParsedPoint(
                      IF lat_dir = "S" THEN Neg(lat) ELSE lat,
                      IF lon_dir = "W" THEN Neg(lon) ELSE lon,
                      gps_alt.value,
                      IF date # None
                      THEN date \o <<hours.value, minutes.value, seconds.value>>
                      ELSE None)

\* Bound of the model: the number of lines of a flight-recorder file.
MaxLines == 3

\* The lines a flight-recorder file is made of: date records (well-formed,
\* with the DATE: prefix, with trailing blank, without date, with letters,
\* with the 31st of February), position records (two well-formed ones, one
\* of 20 characters, one with a letter in a numeric field, one at 25 h) and
\* a record of another type.
DateLines ==
    {<<"H", "F", "D", "T", "E", "0", "4", "0", "1", "2", "0">>,
     <<"H", "F", "D", "T", "E", "D", "A", "T", "E", ":", "3", "1", "1", "2", "9", "9">>,
     <<"H", "F", "D", "T", "E", "0", "1", "0", "1", "5", "0", " ">>,
     <<"H", "F", "D", "T", "E">>,
     <<"H", "F", "D", "T", "E", "0", "4", "A", "B", "2", "0">>,
     <<"H", "F", "D", "T", "E", "3", "1", "0", "2", "2", "0">>}

PositionLines ==
    {<<"B", "1", "6", "0", "2", "0", "5", "5", "1", "0", "7", "1", "2", "6", "N", "0", "0", "2", "4", "9", "3", "4", "3", "W", "A", "0", "0", "2", "8", "0", "0", "0", "2", "8", "7">>,
     <<"B", "0", "9", "0", "4", "1", "5", "4", "6", "3", "0", "0", "0", "0", "S", "0", "0", "6", "3", "0", "0", "0", "0", "E", "A", "0", "0", "5", "0", "0", "0", "0", "5", "1", "2">>,
     <<"B", "1", "6", "0", "2", "0", "5", "5", "1", "0", "7", "1", "2", "6", "N", "0", "0", "2", "4", "9">>,
     <<"B", "1", "6", "0", "2", "0", "5", "5", "1", "x", "7", "1", "2", "6", "N", "0", "0", "2", "4", "9", "3", "4", "3", "W", "A", "0", "0", "2", "8", "0", "0", "0", "2", "8", "7">>,
     <<"B", "2", "5", "0", "2", "0", "5", "5", "1", "0", "7", "1", "2", "6", "N", "0", "0", "2", "4", "9", "3", "4", "3", "W", "A", "0", "0", "2", "8", "0", "0", "0", "2", "8", "7">>}

OtherLines ==
    {<<"A", "X", "G", "D", "0", "0", "1">>}

IgcLines == DateLines \cup PositionLines \cup OtherLines

\* line = line.strip() of the line parse is about to read.
CurrentLine == Strip(source[cursor + 1])

IsDateRecord(line) == StartsWith(line, HFDTE) \/ StartsWith(line, HFDTEDATE)

IsPositionRecord(line) == ~IsDateRecord(line) /\ StartsWith(line, <<"B">>)

\* The buggy variant: a date record read after the first date is ignored.
ReadDateRecord_keeping_first ==
    /\ phase = "reading"
    /\ cursor < Len(source)
    /\ IsDateRecord(CurrentLine)
    /\ LET parsed == parse_date(CurrentLine)
       IN  IF parsed.raised
           THEN /\ phase' = "raised"
                /\ UNCHANGED <<cursor, flight_date>>
           ELSE /\ flight_date' = IF flight_date = None THEN parsed.value
                                  ELSE flight_date
                /\ cursor' = cursor + 1
                /\ UNCHANGED phase
    /\ UNCHANGED <<winVars, trackVars, source, origin, total, batchVars, curveVars>>

\* parse reads a date record: flight_date = self._parse_date(line); the
\* ValueError of _parse_date leaves parse.
ReadDateRecord ==
    /\ phase = "reading"
    /\ cursor < Len(source)
    /\ IsDateRecord(CurrentLine)
    /\ LET parsed == parse_date(CurrentLine)
       IN  IF parsed.raised
           THEN /\ phase' = "raised"
                /\ UNCHANGED <<cursor, flight_date>>
           ELSE /\ flight_date' = parsed.value
                /\ cursor' = cursor + 1
                /\ UNCHANGED phase
    /\ UNCHANGED <<winVars, trackVars, source, origin, total, batchVars, curveVars>>

\* parse reads a position record: the point, if there is one, is added.
ReadPositionRecord ==
    /\ phase = "reading"
    /\ cursor < Len(source)
    /\ IsPositionRecord(CurrentLine)
    /\ LET point == parse_b_record(CurrentLine, flight_date)
       IN  IF point # None
           THEN /\ points' = Append(points, point)
                /\ origin' = Append(origin, cursor + 1)
           ELSE UNCHANGED <<points, origin>>
    /\ cursor' = cursor + 1
    /\ UNCHANGED <<winVars, derivVars, source, flight_date, phase, total, batchVars, curveVars>>

\* parse reads a line of any other type.
ReadOtherRecord ==
    /\ phase = "reading"
    /\ cursor < Len(source)
    /\ ~IsDateRecord(CurrentLine)
    /\ ~IsPositionRecord(CurrentLine)
    /\ cursor' = cursor + 1
    /\ UNCHANGED <<winVars, trackVars, source, flight_date, origin, phase, total,
                   batchVars, curveVars>>

\* return track.
ReturnTrack ==
    /\ phase = "reading"
    /\ cursor = Len(source)
    /\ phase' = "returned"
    /\ UNCHANGED <<winVars, trackVars, parseVars, total, batchVars, curveVars>>

IgcInit ==
    /\ NoWindow
    /\ NoDerivation
    /\ points = <<>>
    /\ source \in SeqsUpTo(IgcLines, MaxLines)
    /\ cursor = 0
    /\ flight_date = None
    /\ origin = <<>>
    /\ phase = "reading"
    /\ total = None
    /\ file_paths = <<>>
    /\ loaded = <<>>
    /\ printed = <<>>
    /\ decoded = <<>>
    /\ viewer_tracks = <<>>
    /\ kwargs = <<>>
    /\ artifact = <<>>
    /\ returned = <<>>

IgcNext ==
    \/ ReadDateRecord
    \/ ReadPositionRecord
    \/ ReadOtherRecord
    \/ ReturnTrack

IgcSpec == IgcInit /\ [][IgcNext]_vars

(***************************************************************************)
(* IGCParser.parse: claims.                                                *)
(***************************************************************************)
\* The lines before line n that are date records.
DateRecordsBefore(n) == {d \in 1..(n - 1) : IsDateRecord(Strip(source[d]))}

Latest(S) == CHOOSE d \in S : \A e \in S : e <= d

\* The HHMMSS of a position record, read digit by digit.
TimeOfDay(line) ==
    <<10 * DigitValue(line[2]) + DigitValue(line[3]),
      10 * DigitValue(line[4]) + DigitValue(line[5]),
      10 * DigitValue(line[6]) + DigitValue(line[7])>>

\* The date a date record carries, None when it carries none.
DateOfRecord(d) == parse_date(Strip(source[d])).value

\* C12 as stated: a point from a position record before every date record
\* has timestamp None; a point from a position record after a date record
\* has the date of the most recent preceding date record and the time of day
\* of its own record.
C12_TimestampFollowsDateRecord ==
    \A k \in 1..Len(points) :
        LET n == origin[k]
            ts == points[k].timestamp
        IN  IF DateRecordsBefore(n) = {}
            THEN ts = None
            ELSE /\ ts # None
                 /\ SubSeq(ts, 1, 3) = DateOfRecord(Latest(DateRecordsBefore(n)))
                 /\ SubSeq(ts, 4, 6) = TimeOfDay(Strip(source[n]))

\* C12 as amended: a point from a position record before every date record
\* has timestamp None, and so has a point whose most recent preceding date
\* record carries no date (fewer than six characters after its prefix);
\* every other point has the date of the most recent preceding date record
\* and the time of day of its own record.
C12_TimestampFollowsDatedRecord ==
    \A k \in 1..Len(points) :
        LET n == origin[k]
            ts == points[k].timestamp
        IN  IF DateRecordsBefore(n) = {}
            THEN ts = None
            ELSE IF DateOfRecord(Latest(DateRecordsBefore(n))) = None
            THEN ts = None
            ELSE /\ ts # None
                 /\ SubSeq(ts, 1, 3) = DateOfRecord(Latest(DateRecordsBefore(n)))
                 /\ SubSeq(ts, 4, 6) = TimeOfDay(Strip(source[n]))

C12_Witness ==
    /\ phase = "returned"
    /\ Len(points) = 1
    /\ Cardinality(DateRecordsBefore(origin[1])) = 2
    /\ points[1].timestamp = <<1999, 12, 31, 9, 4, 15>>

\* The six characters of a date record after its prefix, when the record is
\* the prefix and six digits.
DateDigits(line) ==
    LET body == IF StartsWith(line, HFDTEDATE) THEN SubSeq(line, 11, Len(line))
                ELSE SubSeq(line, 6, Len(line))
    IN  IF Len(body) = 6 /\ \A k \in 1..6 : body[k] \in Digits THEN body ELSE <<>>

WellFormed(line) ==
    /\ IsPositionRecord(line)
    /\ Len(line) >= 35
    /\ \A f \in {<<1, 3>>, <<3, 5>>, <<5, 7>>, <<7, 9>>, <<9, 11>>, <<11, 14>>,
                 <<15, 18>>, <<18, 20>>, <<20, 23>>, <<30, 35>>} :
           ParseInt(Slice(line, f[1], f[2])).ok

\* The numbers of the well-formed position records among the first n lines,
\* in file order.
RECURSIVE WellFormedUpTo(_)
WellFormedUpTo(n) ==
    IF n = 0 THEN <<>>
    ELSE IF WellFormed(Strip(source[n])) THEN Append(WellFormedUpTo(n - 1), n)
    ELSE WellFormedUpTo(n - 1)

\* The lines whose points the track handed back by parse holds.
Decoded == IF phase = "returned" THEN origin ELSE <<>>

\* C14: when parse has ended, the track holds the points of exactly the
\* position records of at least 35 characters whose numeric fields parse,
\* in file order.
C14_TrackHoldsWellFormedRecords ==
    phase \in {"returned", "raised"} => Decoded = WellFormedUpTo(Len(source))

\* C15: parse never fails: no sequence of lines makes it raise.
C15_ParseNeverRaises == phase # "raised"

(***************************************************************************)
(* IGCParser._parse_b_record on one position record.                       *)
(***************************************************************************)
\* The fields a position record is put together from.
LatDegrees == {<<"0", "0">>, <<"4", "6">>, <<"9", "0">>, <<"9", "9">>, <<"4", "x">>}
LatMinutes == {<<"0", "0">>, <<"3", "0">>, <<"5", "9">>, <<"7", "5">>}
LatThousandths == {<<"0", "0", "0">>, <<"0", "0", "1">>, <<"9", "9", "9">>}
LatLetters == {<<"N">>, <<"S">>, <<"X">>}
LonDegrees == {<<"0", "0", "0">>, <<"0", "0", "6">>, <<"1", "8", "0">>, <<"9", "9", "9">>}
LonMinutes == {<<"0", "0">>, <<"5", "9">>}
LonThousandths == {<<"0", "0", "0">>, <<"9", "9", "9">>}
LonLetters == {<<"E">>, <<"W">>}

\* B HHMMSS DDMMmmmN DDDMMmmmE A PPPPP GGGGG.
BRecord(lat_deg, lat_min, lat_dec, lat_dir, lon_deg, lon_min, lon_dec, lon_dir) ==
    <<"B", "1", "6", "0", "2", "0", "5">> \o lat_deg \o lat_min \o lat_dec \o lat_dir
        \o lon_deg \o lon_min \o lon_dec \o lon_dir \o <<"A", "0", "0", "2", "8", "0", "0", "0", "2", "8", "7">>

BRecords ==
    {BRecord(a, b, c, d, e, f, g, h) :
        a \in LatDegrees, b \in LatMinutes, c \in LatThousandths, d \in LatLetters,
        e \in LonDegrees, f \in LonMinutes, g \in LonThousandths, h \in LonLetters}

\* The GGGGG field of a position record: digits, a sign, blanks, an
\* underscore, a letter.
GpsAltitudes ==
    {<<"0", "0", "2", "8", "7">>, <<"9", "9", "9", "9", "9">>, <<"-", "0", "0", "2", "8">>,
     <<"+", "0", "0", "2", "8">>, <<" ", " ", "2", "8", "7">>, <<"0", "0", "_", "8", "7">>, <<"0", "0", "2", "8", "x">>}

\* The example record of the format with another GPS altitude.
AltitudeRecords ==
    {<<"B", "1", "6", "0", "2", "0", "5", "5", "1", "0", "7", "1", "2", "6", "N", "0", "0", "2", "4", "9", "3", "4", "3", "W", "A", "0", "0", "2", "8", "0">> \o g : g \in GpsAltitudes}

\* One call of _parse_b_record on the record.
ParseBRecord ==
    /\ phase = "record"
    /\ LET point == parse_b_record(source[1], flight_date)
       IN  points' = IF point # None THEN <<point>> ELSE <<>>
    /\ phase' = "decoded"
    /\ UNCHANGED <<winVars, derivVars, parseVars, total, batchVars, curveVars>>

BRecordInit ==
    /\ NoWindow
    /\ NoDerivation
    /\ points = <<>>
    /\ source \in {<<line>> : line \in BRecords \cup AltitudeRecords}
    /\ cursor = 0
    /\ flight_date = None
    /\ origin = <<>>
    /\ phase = "record"
    /\ total = None
    /\ file_paths = <<>>
    /\ loaded = <<>>
    /\ printed = <<>>
    /\ decoded = <<>>
    /\ viewer_tracks = <<>>
    /\ kwargs = <<>>
    /\ artifact = <<>>
    /\ returned = <<>>

BRecordNext == ParseBRecord

BRecordSpec == BRecordInit /\ [][BRecordNext]_vars

\* x <= y for fractions with positive denominators.
RLeq(x, y) == x[1] * y[2] <= y[1] * x[2]

\* C16: a point decoded from a position record has its latitude within
\* [-90, 90] and its longitude within [-180, 180].
C16_CoordinatesInRange ==
    (phase = "decoded" /\ points # <<>>) =>
        /\ RLeq(Rat(-90, 1), points[1].latitude)
        /\ RLeq(points[1].latitude, Rat(90, 1))
        /\ RLeq(Rat(-180, 1), points[1].longitude)
        /\ RLeq(points[1].longitude, Rat(180, 1))

\* The characters s[a:b] are digits.
AllDigits(line, a, b) == \A k \in (a + 1)..b : line[k] \in Digits

\* A valid position record: digits in the time and coordinate fields, an
\* altitude that parses, minutes below 60, hemisphere letters N or S and E or
\* W.
ValidPosition(line) ==
    /\ AllDigits(line, 1, 7)
    /\ ParseInt(Slice(line, 30, 35)).ok
    /\ AllDigits(line, 7, 14)
    /\ AllDigits(line, 15, 23)
    /\ DigitsValue(Slice(line, 9, 11), 0) < 60
    /\ DigitsValue(Slice(line, 18, 20), 0) < 60
    /\ line[15] \in {"N", "S"}
    /\ line[24] \in {"E", "W"}

\* |x| in thousandths of a minute, rounded to the nearest.
Thousandths(x) ==
    LET g == GCD(60000, x[2])
    IN  RoundHalfEven(Abs(x[1]) * (60000 \div g), x[2] \div g)

\* A decimal coordinate re-encoded as degrees, minutes, thousandths of a
\* minute and hemisphere letter.
Reencode(x, positive, negative) ==
    [deg |-> Thousandths(x) \div 60000,
     min |-> (Thousandths(x) % 60000) \div 1000,
     min_dec |-> Thousandths(x) % 1000,
     dir |-> IF x[1] < 0 THEN negative ELSE positive]

\* The fields of the record as it is written.
LatFields(line) ==
    [deg |-> DigitsValue(Slice(line, 7, 9), 0),
     min |-> DigitsValue(Slice(line, 9, 11), 0),
     min_dec |-> DigitsValue(Slice(line, 11, 14), 0),
     dir |-> line[15]]

LonFields(line) ==
    [deg |-> DigitsValue(Slice(line, 15, 18), 0),
     min |-> DigitsValue(Slice(line, 18, 20), 0),
     min_dec |-> DigitsValue(Slice(line, 20, 23), 0),
     dir |-> line[24]]

Numeric(fields) == <<fields.deg, fields.min, fields.min_dec>>

GpxTracks ==
    {<<>>,                           \* no track
     <<<<>>>>,                       \* a track without segments
     <<<<<<>>>>>>,                   \* a track with one empty segment
     <<<<<<1>>>>>>,                  \* a track with one segment of one point
     <<<<<<1, 2>>, <<3>>>>>>,        \* a track with two segments
     <<<<<<>>>>, <<<<1>>, <<2>>>>>>} \* two tracks, the first without points

GpxRoutes == {<<>>, <<<<>>>>, <<<<4>>>>, <<<<4, 5>>, <<6>>>>}

GpxWaypoints == {<<>>, <<7>>, <<7, 8>>}

Documents ==
    [tracks : GpxTracks, routes : GpxRoutes, waypoints : GpxWaypoints]

\* The elements of the sequences of seqs, in order: a nested for loop.
RECURSIVE Flatten(_)
Flatten(seqs) ==
    IF seqs = <<>> THEN <<>> ELSE Head(seqs) \o Flatten(Tail(seqs))

\* TrackPoint(latitude=point.latitude, ...) for each point, added in order.
AddAll(track, gpx_points) ==
    track \o [k \in 1..Len(gpx_points) |->
                 ParsedPoint(OfInt(gpx_points[k]), OfInt(0), None, None)]

\* A variant that reads the next level whatever the track holds.
NoPointsYet_ignored(track) == TRUE

\* if len(track) == 0:
NoPointsYet(track) == Len(track) = 0

\* The points of the Track that GPXParser.parse returns for the document.
gpx_parse(gpx) ==
    LET from_tracks == AddAll(<<>>, Flatten(Flatten(gpx.tracks)))
        from_routes ==
            IF NoPointsYet(from_tracks)
            THEN AddAll(from_tracks, Flatten(gpx.routes))
            ELSE from_tracks
    IN  IF NoPointsYet(from_routes)
        THEN AddAll(from_routes, gpx.waypoints)
        ELSE from_routes

\* One call of GPXParser.parse.
ParseGpx ==
    /\ phase = "document"
    /\ points' = gpx_parse(source)
    /\ phase' = "parsed"
    /\ UNCHANGED <<winVars, derivVars, parseVars, total, batchVars, curveVars>>

GpxInit ==
    /\ NoWindow
    /\ NoDerivation
    /\ points = <<>>
    /\ source \in Documents
    /\ cursor = 0
    /\ flight_date = None
    /\ origin = <<>>
    /\ phase = "document"
    /\ total = None
    /\ file_paths = <<>>
    /\ loaded = <<>>
    /\ printed = <<>>
    /\ decoded = <<>>
    /\ viewer_tracks = <<>>
    /\ kwargs = <<>>
    /\ artifact = <<>>
    /\ returned = <<>>

GpxNext == ParseGpx

GpxSpec == GpxInit /\ [][GpxNext]_vars

\* The numbers of the document's points a track's points were made from.
Numbers(track) == [k \in 1..Len(track) |-> track[k].latitude[1]]

\* The numbers of the points under the document's tracks, routes, waypoints.
TrackLevel == Flatten(Flatten(source.tracks))
RouteLevel == Flatten(source.routes)
WaypointLevel == source.waypoints

\* C18: the returned Track takes its points from exactly one level of the
\* document: the tracks' segments if they hold a point, else the routes if
\* they hold a point, else the waypoints; a document without a track but
\* with a route that has points gives a non-empty Track.
C18_OneLevel ==
    phase = "parsed" =>
        /\ TrackLevel # <<>> => Numbers(points) = TrackLevel
        /\ (TrackLevel = <<>> /\ RouteLevel # <<>>) =>
               Numbers(points) = RouteLevel
        /\ (TrackLevel = <<>> /\ RouteLevel = <<>>) =>
               Numbers(points) = WaypointLevel
        /\ (source.tracks = <<>> /\ RouteLevel # <<>>) => points # <<>>

C18_Witness ==
    /\ phase = "parsed"
    /\ source.tracks = <<>>
    /\ source.routes = <<<<4, 5>>, <<6>>>>
    /\ source.waypoints = <<7, 8>>
    /\ Numbers(points) = <<4, 5, 6>>

(***************************************************************************)
(* Batch ingestion: the loop over the selected files in main() and in      *)
(* InteractiveMapViewer._add_tracks.  phase tells which of the two runs.   *)
(***************************************************************************)
MaxFiles == 3

UpperLetters == <<"A", "B", "C", "D", "E", "F", "G", "H", "I", "J", "K", "L", "M", "N", "O", "P", "Q", "R", "S", "T", "U", "V", "W", "X", "Y", "Z">>
LowerLetters == <<"a", "b", "c", "d", "e", "f", "g", "h", "i", "j", "k", "l", "m", "n", "o", "p", "q", "r", "s", "t", "u", "v", "w", "x", "y", "z">>

\* str.lower() of one character.
LowerChar(c) ==
    IF \E k \in 1..26 : UpperLetters[k] = c
    THEN LowerLetters[CHOOSE k \in 1..26 : UpperLetters[k] = c]
    ELSE c

\* file_path.lower()
Lower(s) == [k \in 1..Len(s) |-> LowerChar(s[k])]

\* s contains sub.
Contains(s, sub) ==
    \E k \in 0..(Len(s) - Len(sub)) : SubSeq(s, k + 1, k + Len(sub)) = sub

\* A variant that looks for the extension anywhere in the name.
Decoder_by_containment(file_path) ==
    IF Contains(Lower(file_path), <<".", "g", "p", "x">>) THEN "gpx"
    ELSE IF Contains(Lower(file_path), <<".", "i", "g", "c">>) THEN "igc"
    ELSE "none"

\* The decoder the loop picks for the file: "gpx", "igc", or "none" (the
\* else branch).
Decoder(file_path) ==
    IF EndsWith(Lower(file_path), <<".", "g", "p", "x">>) THEN "gpx"
    ELSE IF EndsWith(Lower(file_path), <<".", "i", "g", "c">>) THEN "igc"
    ELSE "none"

\* The names of the selected files: track files, and other files.
TrackPaths == {<<"A", ".", "G", "P", "X">>, <<"b", ".", "i", "g", "c">>}
OtherPaths ==
    {<<"c", ".", "t", "x", "t">>, <<"d", ".", "g", "p", "x", ".", "b", "a", "k">>}

\* What a decoder's parse does with the file: it returns a Track with points,
\* returns a Track without points, or raises an Exception.
Contents == {"points", "empty", "raises"}

\* A selected file: its path and what decoding its content comes to. The
\* other files are copies of a track file that decodes.
Files ==
    {[file_path |-> p, content |-> c] : p \in TrackPaths, c \in Contents}
        \cup {[file_path |-> p, content |-> "points"] : p \in OtherPaths}

\* Track(name=, track_type=) as the decoder of that type returns it.
DecodedTrack(file_path, track_type) ==
    [name |-> file_path, track_type |-> track_type]

\* A printed line: its kind and the file it names.
Message(kind, file_path) == [kind |-> kind, file_path |-> file_path]

InLoop == phase \in {"main", "_add_tracks"}

\* for file_path in file_paths: the file of the iteration under way.
HasFile == InLoop /\ cursor < Len(file_paths)
file == file_paths[cursor + 1]
file_path == file.file_path

\* The call of a decoder's parse.
Call == [parser |-> Decoder(file_path), file_path |-> file_path]

\* An iteration whose exception leaves the loop.
ParseFails_escaping ==
    /\ HasFile
    /\ Decoder(file_path) # "none"
    /\ file.content = "raises"
    /\ decoded' = Append(decoded, Call)
    /\ printed' = Append(printed, Message("parsing", file_path))
    /\ phase' = "raised"
    /\ UNCHANGED <<cursor, loaded, file_paths, viewer_tracks>>
    /\ UNCHANGED <<winVars, trackVars, source, flight_date, origin, total, curveVars>>

\* An iteration whose decoder raises: except Exception prints the error.
ParseFails ==
    /\ HasFile
    /\ Decoder(file_path) # "none"
    /\ file.content = "raises"
    /\ decoded' = Append(decoded, Call)
    /\ printed' = printed \o <<Message("parsing", file_path),
                               Message("error", file_path)>>
    /\ cursor' = cursor + 1
    /\ UNCHANGED <<phase, loaded, file_paths, viewer_tracks>>
    /\ UNCHANGED <<winVars, trackVars, source, flight_date, origin, total, curveVars>>

\* An iteration whose decoder returns a Track with points.
ParseLoads ==
    /\ HasFile
    /\ Decoder(file_path) # "none"
    /\ file.content = "points"
    /\ decoded' = Append(decoded, Call)
    /\ loaded' = Append(loaded, DecodedTrack(file_path, Decoder(file_path)))
    /\ printed' = printed \o <<Message("parsing", file_path),
                               Message("loaded", file_path)>>
    /\ cursor' = cursor + 1
    /\ UNCHANGED <<phase, file_paths, viewer_tracks>>
    /\ UNCHANGED <<winVars, trackVars, source, flight_date, origin, total, curveVars>>

\* An iteration whose decoder returns a Track without points: the Track is
\* falsy (Track.__len__), so `if track:` skips it.
ParseEmpty ==
    /\ HasFile
    /\ Decoder(file_path) # "none"
    /\ file.content = "empty"
    /\ decoded' = Append(decoded, Call)
    /\ printed' = Append(printed, Message("parsing", file_path))
    /\ cursor' = cursor + 1
    /\ UNCHANGED <<phase, loaded, file_paths, viewer_tracks>>
    /\ UNCHANGED <<winVars, trackVars, source, flight_date, origin, total, curveVars>>

\* An iteration of the else branch: the message, then continue.
RejectFile ==
    /\ HasFile
    /\ Decoder(file_path) = "none"
    /\ printed' = printed \o <<Message("parsing", file_path),
                               Message("unsupported", file_path)>>
    /\ cursor' = cursor + 1
    /\ UNCHANGED <<phase, loaded, decoded, file_paths, viewer_tracks>>
    /\ UNCHANGED <<winVars, trackVars, source, flight_date, origin, total, curveVars>>

\* if not file_paths: ... return
NoFilesSelected ==
    /\ InLoop
    /\ file_paths = <<>>
    /\ printed' = Append(printed, Message("no files", None))
    /\ phase' = "returned"
    /\ UNCHANGED <<cursor, loaded, decoded, file_paths, viewer_tracks>>
    /\ UNCHANGED <<winVars, trackVars, source, flight_date, origin, total, curveVars>>

\* main() after the loop: it returns without tracks, or starts the viewer,
\* which takes a copy of the tracks.
MainEnd ==
    /\ phase = "main"
    /\ file_paths # <<>>
    /\ cursor = Len(file_paths)
    /\ IF loaded = <<>>
       THEN /\ printed' = Append(printed, Message("no tracks", None))
            /\ phase' = "returned"
            /\ UNCHANGED viewer_tracks
       ELSE /\ viewer_tracks' = loaded
            /\ phase' = "viewer"
            /\ UNCHANGED printed
    /\ UNCHANGED <<cursor, loaded, decoded, file_paths>>
    /\ UNCHANGED <<winVars, trackVars, source, flight_date, origin, total, curveVars>>

\* _add_tracks after the loop: self.tracks.extend(new_tracks), or the message.
AddTracksEnd ==
    /\ phase = "_add_tracks"
    /\ file_paths # <<>>
    /\ cursor = Len(file_paths)
    /\ IF loaded # <<>>
       THEN /\ viewer_tracks' = viewer_tracks \o loaded
            /\ printed' = Append(printed, Message("added", None))
       ELSE /\ printed' = Append(printed, Message("no tracks", None))
            /\ UNCHANGED viewer_tracks
    /\ phase' = "returned"
    /\ UNCHANGED <<cursor, loaded, decoded, file_paths>>
    /\ UNCHANGED <<winVars, trackVars, source, flight_date, origin, total, curveVars>>

\* The tracks the viewer holds when _add_tracks is called.
EarlierTracks == <<DecodedTrack(<<"e", ".", "i", "g", "c">>, "igc")>>

BatchInit ==
    /\ NoWindow
    /\ NoDerivation
    /\ points = <<>>
    /\ source = <<>>
    /\ cursor = 0
    /\ flight_date = None
    /\ origin = <<>>
    /\ total = None
    /\ file_paths \in SeqsUpTo(Files, MaxFiles)
    /\ loaded = <<>>
    /\ printed = <<>>
    /\ decoded = <<>>
    /\ kwargs = <<>>
    /\ artifact = <<>>
    /\ returned = <<>>
    /\ \/ phase = "main" /\ viewer_tracks = <<>>
       \/ phase = "_add_tracks" /\ viewer_tracks = EarlierTracks

BatchNext ==
    \/ ParseFails
    \/ ParseLoads
    \/ ParseEmpty
    \/ RejectFile
    \/ NoFilesSelected
    \/ MainEnd
    \/ AddTracksEnd

BatchSpec == BatchInit /\ [][BatchNext]_vars

(***************************************************************************)
(* Batch ingestion: the claims.                                            *)
(***************************************************************************)
\* The extension of a file name: from its last dot on, nothing without a dot.
Extension(name) ==
    LET dots == {k \in 1..Len(name) : name[k] = "."}
    IN  IF dots = {} THEN <<>>
        ELSE SubSeq(name, CHOOSE k \in dots : \A j \in dots : j <= k, Len(name))

\* The extension is .gpx or .igc, whatever the case of its letters.
Recognised(f) ==
    Lower(Extension(f.file_path)) \in {<<".", "g", "p", "x">>, <<".", "i", "g", "c">>}

Unrecognised(f) == ~Recognised(f)
Failing(f) == Recognised(f) /\ f.content = "raises"
Loading(f) == Recognised(f) /\ f.content = "points"

\* The files the loop has gone through, and their paths.
Processed == SubSeq(file_paths, 1, cursor)
PathsOf(fs) == [k \in 1..Len(fs) |-> fs[k].file_path]

IsError(m) == m.kind = "error"
IsUnsupported(m) == m.kind = "unsupported"

\* C19: a file whose decoding fails does not end the batch: the files after
\* it are still given to their decoder, the failure is printed once for each
\* failing file and for no other, and the tracks of the files decoded before
\* and after it are held.
C19_FailureStaysWithItsFile ==
    /\ ~InLoop => cursor = Len(file_paths)
    /\ PathsOf(decoded) = PathsOf(SelectSeq(Processed, Recognised))
    /\ PathsOf(SelectSeq(printed, IsError)) = PathsOf(SelectSeq(Processed, Failing))
    /\ [k \in 1..Len(loaded) |-> loaded[k].name]
           = PathsOf(SelectSeq(Processed, Loading))
    /\ phase = "viewer" => viewer_tracks = loaded

C19_Witness ==
    /\ phase = "returned"
    /\ viewer_tracks = EarlierTracks \o loaded
    /\ Len(file_paths) = 3
    /\ file_paths[1].content = "points"
    /\ Failing(file_paths[2])
    /\ file_paths[3].content = "points"
    /\ Len(loaded) = 2
    /\ SelectSeq(printed, IsError) = <<Message("error", file_paths[2].file_path)>>

\* C20: a file whose extension is neither .gpx nor .igc, whatever the case,
\* is given to no decoder and adds no track; a message naming it is printed,
\* and the files after it are still gone through.
C20_UnsupportedFileRejected ==
    /\ ~InLoop => cursor = Len(file_paths)
    /\ \A k \in 1..cursor :
           Unrecognised(file_paths[k]) =>
               LET name == file_paths[k].file_path
               IN  /\ \A c \in 1..Len(decoded) : decoded[c].file_path # name
                   /\ \A t \in 1..Len(loaded) : loaded[t].name # name
                   /\ \A t \in 1..Len(viewer_tracks) : viewer_tracks[t].name # name
    /\ PathsOf(SelectSeq(printed, IsUnsupported))
           = PathsOf(SelectSeq(Processed, Unrecognised))

C20_Witness ==
    /\ phase = "viewer"
    /\ Len(file_paths) = 2
    /\ file_paths[1] = [file_path |-> <<"d", ".", "g", "p", "x", ".", "b", "a", "k">>, content |-> "points"]
    /\ file_paths[2] = [file_path |-> <<"A", ".", "G", "P", "X">>, content |-> "points"]
    /\ decoded = <<[parser |-> "gpx", file_path |-> <<"A", ".", "G", "P", "X">>]>>
    /\ viewer_tracks = <<DecodedTrack(<<"A", ".", "G", "P", "X">>, "gpx")>>
    /\ SelectSeq(printed, IsUnsupported)
           = <<Message("unsupported", <<"d", ".", "g", "p", "x", ".", "b", "a", "k">>)>>

(***************************************************************************)
(* CurveViewer.create_view: the validation, the series of the chart and    *)
(* the file written.  The chart is a single 'Speed Profile'; a track is    *)
(* the sequence of its points.                                             *)
(***************************************************************************)
X_AXIS_OPTIONS == {"Distance (km)", "Time", "Point Index"}

\* The points of the tracks handed to the renderer: point i lies at latitude
\* i and carries the speed i, or none.
CurvePoint(i, ts, valued) ==
    TrackPoint(i, ts, "speed", IF valued THEN OfInt(i) ELSE None)

CurveTracks ==
    {[i \in 1..Len(c) |-> CurvePoint(i, c[i][1], c[i][2])] :
        c \in SeqsUpTo(Timestamps \X {TRUE, FALSE}, MaxLen)}

\* What create_view may be called with as tracks: None, [] or one track.
TrackLists == {None} \cup {<<pts>> : pts \in CurveTracks}

\* distances: [0.0], then distances[-1] + c * r for each pair.
RECURSIVE Distances(_, _)
Distances(pts, n) ==
    IF n <= 1 THEN <<Rat(0, 1)>>
    ELSE LET before == Distances(pts, n - 1)
         IN  Append(before, FAdd(before[n - 1], HaversineKm(pts[n - 1], pts[n])))

\* list(range(len(track.points)))
PointIndexes(pts) == [k \in 1..Len(pts) |-> OfInt(k - 1)]

HasTimestamp(p) == p.timestamp # None

\* (p.timestamp - base_time).total_seconds() / 60.0
Minutes(p, base_time) ==
    FDiv(OfInt(Seconds(p.timestamp) - Seconds(base_time)), OfInt(60))

\* [... for p in track.points if p.timestamp]
TimeValues(pts) ==
    LET timed == SelectSeq(pts, HasTimestamp)
    IN  [k \in 1..Len(timed) |-> Minutes(timed[k], pts[1].timestamp)]

\* CurveViewer._get_x_values
get_x_values(pts, x_axis) ==
    IF x_axis = "Distance (km)" THEN Distances(pts, Len(pts))
    ELSE IF x_axis = "Time"
    THEN IF pts # <<>> /\ pts[1].timestamp # None
         THEN TimeValues(pts)
         ELSE PointIndexes(pts)
    ELSE PointIndexes(pts)

\* CurveViewer._get_y_values
get_y_values(pts, attribute) == [k \in 1..Len(pts) |-> pts[k][attribute]]

Min(a, b) == IF a <= b THEN a ELSE b

\* zip(x_values, y_values)
Zip(xs, ys) == [k \in 1..Min(Len(xs), Len(ys)) |-> <<xs[k], ys[k]>>]

YIsNotNone(pair) == pair[2] # None

\* The series of one track in _create_single_chart: the (x, y) pairs it
\* writes, none if the loop body ends with continue.
Series(pts, x_axis, y_attr) ==
    LET x_values == get_x_values(pts, x_axis)
        y_values == get_y_values(pts, y_attr)
    IN  IF x_values = <<>> \/ y_values = <<>> THEN <<>>
        ELSE SelectSeq(Zip(x_values, y_values), YIsNotNone)

\* The file at the output path: not there, there from an earlier render, or
\* written by this call with the series of each track.
Absent == [content |-> "absent", series |-> <<>>]
Stale == [content |-> "stale", series |-> <<>>]
Written(tracklist, x_axis) ==
    [content |-> "curves",
     series |-> [k \in 1..Len(tracklist) |-> Series(tracklist[k], x_axis, "speed")]]

Raised(exception) == [raised |-> TRUE, value |-> exception]
Returned(value) == [raised |-> FALSE, value |-> value]

\* A variant that opens the output file before it looks at the tracks.
CreateView_writing_first ==
    /\ phase = "call"
    /\ artifact' = IF source = None THEN Written(<<>>, kwargs.x_axis)
                   ELSE Written(source, kwargs.x_axis)
    /\ returned' = IF source = None \/ source = <<>>
                   THEN Raised("ValueError")
                   ELSE Returned(<<abspath("track_curves.html"), EmptyDict>>)
    /\ phase' = "done"
    /\ UNCHANGED <<winVars, trackVars, source, cursor, flight_date, origin, total,
                   batchVars, kwargs>>

\* CurveViewer.create_view(tracks, output_file, **kwargs).
CreateView ==
    /\ phase = "call"
    /\ IF source = None \/ source = <<>>
       THEN /\ returned' = Raised("ValueError")
            /\ UNCHANGED artifact
       ELSE /\ artifact' = Written(source, kwargs.x_axis)
            /\ returned' = Returned(<<abspath("track_curves.html"), EmptyDict>>)
    /\ phase' = "done"
    /\ UNCHANGED <<winVars, trackVars, source, cursor, flight_date, origin, total,
                   batchVars, kwargs>>

CurveInit ==
    /\ NoWindow
    /\ NoDerivation
    /\ points = <<>>
    /\ source \in TrackLists \cup {<<>>}
    /\ cursor = 0
    /\ flight_date = None
    /\ origin = <<>>
    /\ phase = "call"
    /\ total = None
    /\ file_paths = <<>>
    /\ loaded = <<>>
    /\ printed = <<>>
    /\ decoded = <<>>
    /\ viewer_tracks = <<>>
    /\ kwargs \in [x_axis : X_AXIS_OPTIONS]
    /\ artifact \in {Absent, Stale}
    /\ returned = None

CurveNext == CreateView

CurveSpec == CurveInit /\ [][CurveNext]_vars

\* C21: create_view called with no tracks (an empty list or None) raises the
\* validation error, returns nothing, and leaves the file at the output path
\* as it was: not created, not overwritten.
C21_NoTracksNothingWritten ==
    [][(phase = "call" /\ (source = None \/ source = <<>>)) =>
          /\ returned' = Raised("ValueError")
          /\ artifact' = artifact]_vars

C21_Witness ==
    /\ phase = "done"
    /\ source = <<>>
    /\ artifact = Stale
    /\ returned = Raised("ValueError")

\* The x value that belongs to point j of the track in the x-axis mode: its
\* cumulative distance, its minutes since the first timestamp, or its index;
\* in the Time mode a point without timestamp has none.
XOf(pts, j, x_axis) ==
    IF x_axis = "Distance (km)" THEN Distances(pts, Len(pts))[j]
    ELSE IF x_axis = "Time" /\ pts[1].timestamp # None
    THEN IF HasTimestamp(pts[j]) THEN Minutes(pts[j], pts[1].timestamp) ELSE None
    ELSE OfInt(j - 1)

\* C22: in every x-axis mode, each (x, y) pair of a track's series is the x
\* and the y of one and the same point of the track.
C22_PairsFromOnePoint ==
    (phase = "done" /\ ~returned.raised) =>
        \A t \in 1..Len(source) :
            \A k \in 1..Len(artifact.series[t]) :
                \E j \in 1..Len(source[t]) :
                    artifact.series[t][k]
                        = <<XOf(source[t], j, kwargs.x_axis), source[t][j].speed>>

(***************************************************************************)
(* The window: further claims.                                             *)
(***************************************************************************)
\* C23: every successful create_view of the curve renderer hands back an
\* empty view state, so the view_state a curve window stores is empty after
\* any sequence of renders, and no render of it is handed a stored centre or
\* zoom.
C23_CurveViewStateEmpty ==
    window = "curve" =>
        /\ view_state = EmptyDict
        /\ Called => ~HasView(render.options)

C23_Witness ==
    /\ window = "curve"
    /\ tracks > 0
    /\ render.outcome = "created"
    /\ render.cause = "track_property"
    /\ ~render.fit_bounds
    /\ view_state = EmptyDict

\* C30: whenever no handler is running and the track set is empty, the
\* stored view_state is empty.
C30_EmptySetEmptyViewState ==
    (stack = <<>> /\ tracks = 0) => view_state = EmptyDict

\* A viewport captured while the track set was being emptied has been dropped
\* by the render that followed.
C30_Witness ==
    /\ window = "map"
    /\ stack = <<>>
    /\ tracks = 0
    /\ render.outcome = "empty"
    /\ render.prior_view # EmptyDict
    /\ view_state = EmptyDict

(***************************************************************************)
(* The track: the scans of the windowed average, claims.                   *)
(***************************************************************************)
\* The value point i of the track gets when the pass works on it alone.
AveragedAlone(pts, i) ==
    IF ~Has(pts[i]) THEN pts[i][chan]
    ELSE LET w == Window(pts, Values(pts), i, op.window_seconds)
         IN  IF w.count > 0 THEN FDiv(w.sum, OfInt(w.count)) ELSE pts[i][chan]

\* C24: the value the pass gives to a point is computed from the values the
\* track had before the pass, never from a value the pass has rewritten:
\* every point ends with the value it would get were it the only one
\* processed.
C24_AveragesOriginalValues ==
    (IsAverage /\ passes = 1) =>
        \A i \in 1..Len(original) : points[i][chan] = AveragedAlone(original, i)

C24_Witness ==
    /\ IsAverage
    /\ passes = 1
    /\ \E i, j \in Valued(original) :
        /\ i < j
        /\ ~OutOfWindow(TimeDiff(original[i], original[j]), op.window_seconds)
        /\ points[i][chan] # original[i][chan]
        /\ AveragedAlone([original EXCEPT ![i] = points[i]], j) # AveragedAlone(original, j)
        /\ points[j][chan] = AveragedAlone(original, j)

\* |t_j - t_i| <= h, with h half the window.
WithinHalf(pts, i, j) == 2 * TimeDiff(pts[i], pts[j]) <= op.window_seconds

\* The neighbours a scan of point i reaches: those with no timestamped point
\* more than h away between point i and them, themselves included.
Reached(pts, i) ==
    {j \in 1..Len(pts) :
        \A k \in (IF j <= i THEN j..i ELSE (i + 1)..j) :
            k \in Timed(pts) => WithinHalf(pts, i, k)}

\* The neighbours whose value enters the sum of point i.
Included(pts, i) == Reached(pts, i) \cap Valued(pts)

\* The indices of S in scan order: from i backwards, then from i + 1 forwards.
InS(S, js) == SelectSeq(js, LAMBDA j : j \in S)
ScanOrder(pts, i, S) == InS(S, Backward(i)) \o InS(S, Forward(i, Len(pts)))

\* 0.0 + v1 + v2 + ... in the order of js.
RECURSIVE SumInOrder(_, _, _)
SumInOrder(pts, js, acc) ==
    IF js = <<>> THEN acc
    ELSE SumInOrder(pts, Tail(js), FAdd(acc, pts[Head(js)][chan]))

\* window_sum / window_count over the points of S.
MeanInOrder(pts, i, S) ==
    FDiv(SumInOrder(pts, ScanOrder(pts, i, S), Rat(0, 1)), OfInt(Cardinality(S)))

\* C25: a neighbour whose time difference to point i is exactly h is in the
\* sum and count of point i; a scan direction ends only at the first
\* timestamped neighbour more than h away; point i is counted once.
C25_HalfWindowInclusive ==
    (IsAverage /\ passes = 1) =>
        \A i \in Valued(original) :
            LET S == Included(original, i)
            IN  /\ i \in S
                /\ WindowCount(original, i) = Cardinality(S)
                /\ points[i][chan] = MeanInOrder(original, i, S)

C25_Witness ==
    /\ IsAverage
    /\ passes = 1
    /\ op.window_seconds = 10
    /\ \E i, j \in Valued(original) :
        /\ TimeDiff(original[i], original[j]) = 5
        /\ Included(original, i) = {i, j}
        /\ original[i][chan] # original[j][chan]
        /\ points[i][chan] = Rat(3, 1)

\* The track without its points that have no timestamp.
TimedOnly(pts) == SelectSeq(pts, LAMBDA p : p.timestamp # None)

\* C26: a neighbour without timestamp adds nothing to sum and count and does
\* not end the scan: the points with a timestamp end with the values they
\* get on the track from which the points without timestamp are taken out.
C26_UntimedNeighbourSkipped ==
    (IsAverage /\ passes = 1) =>
        Values(TimedOnly(points)) = Values(Apply(op, TimedOnly(original)))

C26_Witness ==
    /\ IsAverage
    /\ passes = 1
    /\ op.name = "_average_power"
    /\ Len(original) = 3
    /\ original[2].timestamp = None
    /\ original[2].power # None
    /\ {1, 3} \subseteq Valued(original)
    /\ original[1].power # original[3].power
    /\ points[1].power = Rat(3, 1)
    /\ points[3].power = Rat(3, 1)

\* C27: the altitude of a decoded point is the unsigned integer value of the
\* five characters at offsets 30 to 35 of the record, and is never negative.
C27_AltitudeUnsigned ==
    (phase = "decoded" /\ points # <<>>) =>
        /\ points[1].altitude >= 0
        /\ AllDigits(source[1], 30, 35) =>
               points[1].altitude = DigitsValue(Slice(source[1], 30, 35), 0)

\* The timestamps do not decrease along the track.
NonDecreasing(pts) ==
    \A i, j \in Timed(pts) :
        i < j => Seconds(pts[i].timestamp) <= Seconds(pts[j].timestamp)

\* The points with a timestamp and a value at most h away from point i.
AllWithin(pts, i) == {j \in Valued(pts) : WithinHalf(pts, i, j)}

\* The sum of the values of the points of S, and their mean, as numbers.
RECURSIVE ExactSum(_, _)
ExactSum(pts, S) ==
    IF S = {} THEN Rat(0, 1)
    ELSE LET j == CHOOSE k \in S : TRUE
         IN  RAdd(pts[j][chan], ExactSum(pts, S \ {j}))

Mean(pts, S) == Fl(RDiv(ExactSum(pts, S), OfInt(Cardinality(S))))

\* C28 as stated: on a track whose timestamps do not decrease, the value the
\* pass gives to a point with a timestamp and a value is the mean of the
\* original values of all points with a timestamp and a value at most h away.
C28_ScanIsMeanOfWindow ==
    (IsAverage /\ passes = 1 /\ NonDecreasing(original)) =>
        \A i \in Valued(original) :
            points[i][chan] = Mean(original, AllWithin(original, i))

\* C28 as amended: on a track whose timestamps do not decrease, the value the
\* pass gives to a point with a timestamp and a value is the float sum of the
\* original values of all points with a timestamp and a value at most h
\* away, added from point i backwards and then forwards, divided by their
\* number.
C28_ScanIsFloatMeanOfWindow ==
    (IsAverage /\ passes = 1 /\ NonDecreasing(original)) =>
        \A i \in Valued(original) :
            points[i][chan] = MeanInOrder(original, i, AllWithin(original, i))

C28_Witness ==
    /\ IsAverage
    /\ passes = 1
    /\ NonDecreasing(original)
    /\ Len(original) = 3
    /\ \E i \in Valued(original) :
        /\ AllWithin(original, i) # Valued(original)
        /\ Cardinality(AllWithin(original, i)) = 2
        /\ points[i][chan] = Rat(3, 1)

\* A printed line that tells what became of a file: the error of its decoder
\* or the refusal of its format ("Parsing: ..." is printed before the file
\* is looked at).
IsReport(m) == m.kind \in {"error", "unsupported"}

\* The files gone through that gave no track.
WithoutTrack(f) == ~Loading(f)

\* C29: no file is dropped silently: every file the loop has gone through
\* has added its track or has a message naming it that tells what became of
\* it, a file that decodes to a Track without points included.
C29_NoFileDroppedSilently ==
    /\ Len(loaded) + Len(SelectSeq(printed, IsReport)) = cursor
    /\ PathsOf(SelectSeq(printed, IsReport))
           = PathsOf(SelectSeq(Processed, WithoutTrack))

====
